---- MODULE Spec2Model ----
(***************************************************************************)
(* Fold/unfold permission inference of prusti-viper: the permission state  *)
(* (foldunfold/state.rs), the permission algebra (foldunfold/perm.rs) and  *)
(* the branch context with obtain and join (foldunfold/branch_ctxt.rs).    *)
(*                                                                         *)
(* A place is a sequence of components: the local variable followed by the *)
(* fields projected from it.  A panic of the Rust code is the err field of *)
(* a state: once set, the run is over for that branch context.             *)
(***************************************************************************)
EXTENDS Integers, Sequences, FiniteSets, TLC

VARIABLES a, b, phase, last, steps, debug_assertions, pf

vars == <<a, b, phase, last, steps, debug_assertions, pf>>

(***************************************************************************)
(* Bounds of the model.                                                    *)
(***************************************************************************)
\* statements applied to one branch context before the fork / after it
MaxSteps == 3
MaxBranchSteps == 1
\* statements applied to a branch context that is never forked
MaxSoloSteps == 5
\* depth of the recursion of do_obtain that the model follows
MaxFuel == 8
\* perm_difference: number of permissions in each input set
MaxDiffPerms == 2
\* frames on the framing stack
MaxFrames == 2
\* insert/remove sequences on one place
MaxDeltaOps == 4

(***************************************************************************)
(* Places (vir::Expr restricted to places).                                *)
(***************************************************************************)
NoPlace == <<>>

\* the places of the local x, a struct
StructPlaces ==
    { <<"x">>, <<"x", "f">>, <<"x", "g">>, <<"x", "f", "val">> }

\* the places of the local e, an enum with the variants A and B
EnumPlaces ==
    { <<"e">>, <<"e", "discriminant">>, <<"e", "enum_A">>, <<"e", "enum_B">> }

\* the places of the local y, whose type is the struct I
LeafPlaces == { <<"y">>, <<"y", "val">> }

\* the place of the local z, whose type is the abstract struct T
AbstractPlaces == { <<"z">>, <<"z", "val">> }

Places == StructPlaces \cup EnumPlaces \cup LeafPlaces \cup AbstractPlaces

\* the order in which a HashMap/HashSet may hand out the places ("asc"),
\* or the reverse of it ("desc")
AllPlacesSeq ==
    << <<"x">>, <<"x", "f">>, <<"x", "g">>, <<"x", "f", "val">>,
       <<"e">>, <<"e", "discriminant">>, <<"e", "enum_A">>, <<"e", "enum_B">>,
       <<"y">>, <<"y", "val">>, <<"z">>, <<"z", "val">> >>

HashOrders == {"asc", "desc"}

Reverse(s) == [i \in 1..Len(s) |-> s[Len(s) + 1 - i]]

SetToSeq(S, ord) ==
    LET In(p) == p \in S
        up == SelectSeq(AllPlacesSeq, In)
    IN  IF ord = "asc" THEN up ELSE Reverse(up)

SeqToSet(s) == {s[i] : i \in 1..Len(s)}

is_local(p) == Len(p) = 1

has_prefix(self, other) ==
    /\ Len(other) <= Len(self)
    /\ SubSeq(self, 1, Len(other)) = other

has_proper_prefix(self, other) == self # other /\ has_prefix(self, other)

get_parent(p) == IF Len(p) <= 1 THEN NoPlace ELSE SubSeq(p, 1, Len(p) - 1)

\* from the shortest to the longest
all_proper_prefixes(p) == [i \in 1..(Len(p) - 1) |-> SubSeq(p, 1, i)]

VariantNames == {"enum_A", "enum_B"}

\* MaybeEnumVariantIndex: no variant
None == "None"

is_variant(p) == p[Len(p)] \in VariantNames

\* every place of the model is built from Local, Field and Variant only
is_simple_place(p) == TRUE

is_mir_reference(p) == FALSE

(***************************************************************************)
(* Permission amounts (vir::PermAmount).                                   *)
(***************************************************************************)
Amounts == {"Read", "Remaining", "Write"}

Invalid == "Invalid"

AmountRank(x) == CASE x = "Read" -> 1 [] x = "Remaining" -> 2 [] x = "Write" -> 3

AmountLeq(x, y) == AmountRank(x) <= AmountRank(y)

AmountLt(x, y) == AmountRank(x) < AmountRank(y)

AmountAdd(x, y) ==
    CASE x = "Read" /\ y = "Read" -> "Read"
      [] x = "Read" /\ y = "Remaining" -> "Write"
      [] x = "Remaining" /\ y = "Read" -> "Write"
      [] OTHER -> Invalid

AmountSub(x, y) ==
    CASE x = "Write" /\ y = "Read" -> "Remaining"
      [] x = "Write" /\ y = "Remaining" -> "Read"
      [] OTHER -> Invalid

is_valid_for_specs(x) == x \in {"Read", "Write"}

AmountMin(S, default) ==
    IF S = {} THEN default
    ELSE CHOOSE x \in S : \A y \in S : AmountLeq(x, y)

(***************************************************************************)
(* Permissions (perm.rs).                                                  *)
(***************************************************************************)
Acc(place, amount) == [kind |-> "acc", place |-> place, amount |-> amount]

Pred(place, amount) == [kind |-> "pred", place |-> place, amount |-> amount]

is_acc(perm) == perm.kind = "acc"

is_pred(perm) == perm.kind = "pred"

NoPerm == [kind |-> "none", place |-> NoPlace, amount |-> Invalid]

(***************************************************************************)
(* Predicate definitions: struct S { f: I, g: U }, I, whose body is        *)
(* acc(self.val), and U, whose body is empty.  The local x has type S.     *)
(* enum E { A, B }, whose variants are the structs EA and EB with empty    *)
(* bodies.  The local e has type E, the local y has type I, the local z   *)
(* has type T, a predicate without a body.                                 *)
(***************************************************************************)
\* the predicate that encodes the type of a place ("" for a non-reference)
typed_ref_name(p) ==
    CASE p[Len(p)] = "x" -> "S"
      [] p[Len(p)] = "f" -> "I"
      [] p[Len(p)] = "y" -> "I"
      [] p[Len(p)] = "z" -> "T"
      [] p[Len(p)] = "g" -> "U"
      [] p[Len(p)] = "e" -> "E"
      [] p[Len(p)] = "enum_A" -> "EA"
      [] p[Len(p)] = "enum_B" -> "EB"
      [] OTHER -> ""

\* the body's permissions, as paths from the predicate's self place
get_permissions_with_variant(name, variant) ==
    CASE name = "S" ->
            { Acc(<<"f">>, "Write"), Pred(<<"f">>, "Write"),
              Acc(<<"g">>, "Write"), Pred(<<"g">>, "Write") }
      [] name = "I" -> { Acc(<<"val">>, "Write") }
      \* EnumPredicate::get_permissions and get_all_permissions
      [] name = "E" ->
            { Acc(<<"discriminant">>, "Write") }
            \cup { Acc(<<v>>, "Write") :
                     v \in IF variant = None THEN VariantNames ELSE {variant} }
            \cup { Pred(<<v>>, "Write") :
                     v \in IF variant = None THEN VariantNames ELSE {variant} }
      [] OTHER -> {}

\* the predicates whose body is None
AbstractNames == {"T"}

\* a table in which no predicate is abstract
is_abstract_never(name) == FALSE

is_abstract(name) == name \in AbstractNames

PredPlaces == {p \in Places : typed_ref_name(p) # ""}

\* perm.map_place(|p| p.replace_place(&pred_self_place, place))
map_place(perm, place) == [perm EXCEPT !.place = place \o perm.place]

(***************************************************************************)
(* The permission state (state.rs).                                        *)
(***************************************************************************)
EmptyMap == [p \in {} |-> "Write"]

MapPut(m, k, v) == [p \in (DOMAIN m) \cup {k} |-> IF p = k THEN v ELSE m[p]]

MapDel(m, k) == [p \in (DOMAIN m) \ {k} |-> m[p]]

MapRetain(m, Keep(_)) == [p \in {q \in DOMAIN m : Keep(q)} |-> m[p]]

\* State::new, for a BranchCtxt::new over the local variable x
NewState ==
    [ acc |-> [p \in {<<"x">>} |-> "Write"],
      pred |-> EmptyMap,
      quant |-> {},
      moved |-> {},
      framing_stack |-> <<>>,
      err |-> "" ]

Panic(s, msg) == IF s.err = "" THEN [s EXCEPT !.err = msg] ELSE s

Ok(s) == s.err = ""

contains_acc(s, place) == place \in DOMAIN s.acc

contains_pred(s, place) == place \in DOMAIN s.pred

acc_places(s) == DOMAIN s.acc

pred_places(s) == DOMAIN s.pred

is_proper_prefix_of_some_acc(s, prefix) ==
    \E place \in DOMAIN s.acc : has_proper_prefix(place, prefix)

acc_leaves(s) == {p \in DOMAIN s.acc : ~is_proper_prefix_of_some_acc(s, p)}

\* an insert without the assertion on the sum
insert_acc_unchecked(s, place, perm) ==
    IF ~Ok(s) THEN s
    ELSE IF place \in DOMAIN s.acc
         THEN LET new_perm == AmountAdd(s.acc[place], perm)
              IN  [s EXCEPT !.acc = MapPut(s.acc, place, new_perm)]
         ELSE [s EXCEPT !.acc = MapPut(s.acc, place, perm)]

insert_acc(s, place, perm) ==
    IF ~Ok(s) THEN s
    ELSE IF place \in DOMAIN s.acc
         THEN LET new_perm == AmountAdd(s.acc[place], perm)
              IN  IF new_perm \in {"Write", "Read"}
                  THEN [s EXCEPT !.acc = MapPut(s.acc, place, new_perm)]
                  ELSE Panic(s, "insert_acc: invalid sum")
         ELSE [s EXCEPT !.acc = MapPut(s.acc, place, perm)]

\* an insert of a predicate that is lost
insert_pred_dropped(s, place, perm) == s

insert_pred(s, place, perm) ==
    IF ~Ok(s) THEN s
    ELSE IF place \in DOMAIN s.pred
         THEN LET new_perm == AmountAdd(s.pred[place], perm)
              IN  IF new_perm \in {"Write", "Read"}
                  THEN [s EXCEPT !.pred = MapPut(s.pred, place, new_perm)]
                  ELSE Panic(s, "insert_pred: invalid sum")
         ELSE [s EXCEPT !.pred = MapPut(s.pred, place, perm)]

insert_moved(s, place) ==
    IF ~Ok(s) THEN s ELSE [s EXCEPT !.moved = @ \cup {place}]

remove_acc_place(s, place) ==
    IF ~Ok(s) THEN s
    ELSE IF place \notin DOMAIN s.acc
         THEN Panic(s, "remove_acc_place: not in state")
         ELSE [s EXCEPT !.acc = MapDel(s.acc, place)]

remove_pred_place(s, place) ==
    IF ~Ok(s) THEN s
    ELSE IF place \notin DOMAIN s.pred
         THEN Panic(s, "remove_pred_place: not in state")
         ELSE [s EXCEPT !.pred = MapDel(s.pred, place)]

\* a remove that deletes the entry whatever amount is taken
remove_acc_always_delete(s, place, perm) ==
    IF ~Ok(s) THEN s
    ELSE IF place \notin DOMAIN s.acc
         THEN Panic(s, "remove_acc: not in state")
         ELSE [s EXCEPT !.acc = MapDel(s.acc, place)]

remove_acc(s, place, perm) ==
    IF ~Ok(s) THEN s
    ELSE IF place \notin DOMAIN s.acc
         THEN Panic(s, "remove_acc: not in state")
         ELSE IF AmountLeq(s.acc[place], perm)
              THEN [s EXCEPT !.acc = MapDel(s.acc, place)]
              ELSE LET d == AmountSub(s.acc[place], perm)
                   IN  IF d = Invalid
                       THEN Panic(s, "PermAmount: invalid subtraction")
                       ELSE [s EXCEPT !.acc = MapPut(s.acc, place, d)]

remove_pred(s, place, perm) ==
    IF ~Ok(s) THEN s
    ELSE IF place \notin DOMAIN s.pred
         THEN Panic(s, "remove_pred: not in state")
         ELSE IF AmountLeq(s.pred[place], perm)
              THEN [s EXCEPT !.pred = MapDel(s.pred, place)]
              ELSE LET d == AmountSub(s.pred[place], perm)
                   IN  IF d = Invalid
                       THEN Panic(s, "PermAmount: invalid subtraction")
                       ELSE [s EXCEPT !.pred = MapPut(s.pred, place, d)]

remove_moved_matching(s, Match(_)) ==
    IF ~Ok(s) THEN s ELSE [s EXCEPT !.moved = {p \in @ : ~Match(p)}]

insert_perm(s, perm) ==
    IF is_acc(perm) THEN insert_acc(s, perm.place, perm.amount)
    ELSE insert_pred(s, perm.place, perm.amount)

remove_perm(s, perm) ==
    IF is_acc(perm) THEN remove_acc(s, perm.place, perm.amount)
    ELSE remove_pred(s, perm.place, perm.amount)

\* the permissions of a set in the order a Vec collected from it may have
AllKindsSeq == <<"acc", "pred">>

AllAmountsSeq == <<"Read", "Remaining", "Write">>

AllPermsSeq ==
    [i \in 1..(Len(AllPlacesSeq) * 6) |->
        [kind |-> AllKindsSeq[(((i - 1) \div 3) % 2) + 1],
         place |-> AllPlacesSeq[((i - 1) \div 6) + 1],
         amount |-> AllAmountsSeq[((i - 1) % 3) + 1]]]

PermsToSeq(S, ord) ==
    LET In(p) == p \in S
        up == SelectSeq(AllPermsSeq, In)
    IN  IF ord = "asc" THEN up ELSE Reverse(up)

RECURSIVE insert_all_perms(_, _)
insert_all_perms(s, items) ==
    IF items = <<>> \/ ~Ok(s) THEN s
    ELSE insert_all_perms(insert_perm(s, Head(items)), Tail(items))

RECURSIVE remove_all_perms(_, _)
remove_all_perms(s, items) ==
    IF items = <<>> \/ ~Ok(s) THEN s
    ELSE remove_all_perms(remove_perm(s, Head(items)), Tail(items))

\* QuantifiedResourceAccess::try_instantiate of a resource without bound
\* variables, which is the plain resource under its condition: the type of
\* the match, or None
try_instantiate(quant, perm_place) ==
    IF ~has_prefix(perm_place, quant.place) THEN None
    ELSE CASE perm_place = quant.place /\ is_acc(quant) -> "PerfectFieldAccMatch"
           [] perm_place = quant.place /\ ~is_acc(quant) -> "PerfectPredAccMatch"
           [] perm_place # quant.place /\ is_acc(quant) -> "PrefixFieldAccMatch"
           [] perm_place # quant.place /\ ~is_acc(quant) -> "PrefixPredAccMatch"

\* every held quantified resource that the place instantiates: the perfect
\* field matches first, then the perfect predicate matches, then the prefix
\* predicate matches, then the prefix field matches
get_all_quantified_instances(s, req, ord) ==
    LET of(types) ==
            PermsToSeq({q \in s.quant :
                          try_instantiate(q, req.place) \in types}, ord)
    IN  of({"PerfectFieldAccMatch"}) \o of({"PerfectPredAccMatch"})
        \o of({"PrefixPredAccMatch"}) \o of({"PrefixFieldAccMatch"})

insert_quant(s, quant) ==
    LET similar == {c \in s.quant : c.kind = quant.kind /\ c.place = quant.place}
        curr_quant == CHOOSE c \in similar : TRUE
        new_perm == AmountAdd(curr_quant.amount, quant.amount)
    IN  IF ~Ok(s) THEN s
        ELSE IF similar = {} THEN [s EXCEPT !.quant = @ \cup {quant}]
        ELSE IF new_perm \notin {"Write", "Read"}
        THEN Panic(s, "insert_quant: Trying to inhale predicate permission")
        ELSE [s EXCEPT !.quant = @ \cup {[curr_quant EXCEPT !.amount = new_perm]}]

\* a lookup that never finds the permission
contains_perm_never(s, item) == "No"

\* Note: the permission amount is ignored
contains_perm(s, item) ==
    LET contained == IF is_acc(item) THEN contains_acc(s, item.place)
                     ELSE contains_pred(s, item.place)
        instances == {q \in s.quant : try_instantiate(q, item.place) # None}
    IN  IF contained THEN "Yes"
        ELSE IF instances = {} THEN "No" ELSE "Quantified"

contains_all_perms(s, items) == \A x \in items : contains_perm(s, x) # "No"

\* check_consistency: the message of the panic, or "" when no check fails
ConsistencyError(s) ==
    IF \E place \in DOMAIN s.pred :
          /\ is_simple_place(place) /\ ~contains_acc(s, place)
          /\ ~(get_parent(place) # NoPlace /\ get_parent(place) \in DOMAIN s.pred)
          /\ s.pred[place] # "Remaining" /\ s.pred[place] # "Read"
          /\ ~is_mir_reference(place)
    THEN "Consistency error: state has pred, but not acc"
    ELSE IF \E place \in DOMAIN s.acc :
          /\ is_simple_place(place) /\ ~is_local(place)
          /\ ~contains_acc(s, get_parent(place))
          /\ ~(s.acc[place] = "Read" /\ is_local(get_parent(get_parent(place))))
    THEN "Consistency error: state has acc, but not acc of the parent"
    ELSE IF \E place, other_place \in DOMAIN s.pred :
          /\ has_proper_prefix(place, other_place)
          /\ ~(s.pred[place] \in {"Read", "Remaining"} /\ s.pred[other_place] = "Read")
    THEN "Consistency error: state has pred, but also pred"
    ELSE IF \E acc_place \in DOMAIN s.acc, pred_place \in DOMAIN s.pred :
          has_proper_prefix(acc_place, pred_place)
    THEN "Consistency error: state has acc, but also pred"
    ELSE IF \E acc_place \in DOMAIN s.acc, moved_place \in s.moved :
          has_proper_prefix(acc_place, moved_place)
    THEN "Consistency error: state has acc, but also moved path"
    ELSE IF \E pred_place \in DOMAIN s.pred, moved_place \in s.moved :
          has_prefix(pred_place, moved_place) \/ has_prefix(moved_place, pred_place)
    THEN "Consistency error: state has pred, but also moved path"
    ELSE ""

Consistent(s) == ConsistencyError(s) = ""

\* the check is compiled in only when debug_assertions is off
check_consistency(s, debug) ==
    IF ~Ok(s) \/ debug THEN s
    ELSE IF Consistent(s) THEN s ELSE Panic(s, ConsistencyError(s))

(***************************************************************************)
(* Actions (action.rs) and the branch context (branch_ctxt.rs).            *)
(***************************************************************************)
ActUnfold(place, amount, variant) ==
    [kind |-> "Unfold", perm |-> Pred(place, amount), missing |-> NoPerm,
     variant |-> variant]

ActTemporaryUnfold(place, amount, variant) ==
    [kind |-> "TemporaryUnfold", perm |-> Pred(place, amount),
     missing |-> NoPerm, variant |-> variant]

ActFold(place, amount, variant) ==
    [kind |-> "Fold", perm |-> Pred(place, amount), missing |-> NoPerm,
     variant |-> variant]

\* Action::Assertion, of the condition of a quantified resource
ActAssertion ==
    [kind |-> "Assertion", perm |-> NoPerm, missing |-> NoPerm, variant |-> None]

ActDrop(perm, missing) ==
    [kind |-> "Drop", perm |-> perm, missing |-> missing, variant |-> None]

\* the permissions of the predicate's body at pred_place
places_in_pred_of(pred_place, variant) ==
    { map_place(perm, pred_place) :
        perm \in get_permissions_with_variant(typed_ref_name(pred_place), variant) }

update_perm_amount_all(perms, amount) ==
    { [perm EXCEPT !.amount = amount] : perm \in perms }

\* Simulate an unfold: the state afterwards and the action
unfold(s, pred_place, perm_amount, variant, temporary_unfold, ord) ==
    LET action == IF temporary_unfold
                  THEN ActTemporaryUnfold(pred_place, perm_amount, variant)
                  ELSE ActUnfold(pred_place, perm_amount, variant)
    IN  IF ~Ok(s) THEN [st |-> s, action |-> action]
        ELSE IF ~contains_pred(s, pred_place)
        THEN [st |-> Panic(s, "unfold: missing pred"), action |-> action]
        ELSE IF ~is_valid_for_specs(perm_amount)
        THEN [st |-> Panic(s, "unfold: Invalid permission amount."),
              action |-> action]
        ELSE LET body == update_perm_amount_all(
                            places_in_pred_of(pred_place, variant), perm_amount)
                 s1 == remove_pred(s, pred_place, perm_amount)
             IN  [st |-> insert_all_perms(s1, PermsToSeq(body, ord)),
                  action |-> action]

\* Find the variant of enum that place has, looking at prefixed_place
find_variant(place, prefixed_place) ==
    IF prefixed_place[Len(place) + 1] \in VariantNames
    THEN prefixed_place[Len(place) + 1]
    ELSE None

find_fold_variant(s, req, ord) ==
    LET cands == {place \in acc_places(s) :
                    has_proper_prefix(place, req.place) /\ is_variant(place)}
    IN  IF cands = {} THEN None
        ELSE find_variant(req.place, SetToSeq(cands, ord)[1])

Success(s, actions) ==
    [st |-> s, ok |-> TRUE, actions |-> actions, missing |-> NoPerm]

Failure(s, missing) ==
    [st |-> s, ok |-> FALSE, actions |-> <<>>, missing |-> missing]

\* what the amounts held at or below the place of p can offer
OfferedAmounts(s, p) ==
    {s.acc[place] : place \in {q \in DOMAIN s.acc : has_prefix(q, p.place)}}
    \cup {s.pred[place] : place \in {q \in DOMAIN s.pred : has_prefix(q, p.place)}}

\* a fold that always takes the Read fraction
FoldAmountRead(s, places_in_pred) == "Read"

\* the amount of the fold: the least of what the places of the body offer
FoldAmount(s, places_in_pred) ==
    AmountMin({AmountMin(OfferedAmounts(s, p), "Write") : p \in places_in_pred},
              "Write")

RECURSIVE do_obtain(_, _, _, _, _)
RECURSIVE obtain_each(_, _, _, _, _)
RECURSIVE handle_quantified_instances_results(_, _, _, _, _)

\* for fold_req_place in &places_in_pred { self.do_obtain(..., false) }
obtain_each(s, reqs, ord, fuel, actions) ==
    IF reqs = <<>> THEN Success(s, actions)
    ELSE LET then(r) ==
                 IF ~r.ok THEN r
                 ELSE obtain_each(r.st, Tail(reqs), ord, fuel,
                                  actions \o r.actions)
         IN  then(do_obtain(s, Head(reqs), FALSE, ord, fuel))

do_obtain(s, req, in_join, ord, fuel) ==
    LET prefix_preds == {p \in pred_places(s) : has_proper_prefix(req.place, p)}
        existing_pred_to_unfold == SetToSeq(prefix_preds, ord)[1]
        predicate_name == typed_ref_name(req.place)
        fold_variant == find_fold_variant(s, req, ord)
        places_in_pred == places_in_pred_of(req.place, fold_variant)
        can_fold ==
            IF \E p \in acc_places(s) : has_proper_prefix(p, req.place)
            THEN TRUE
            ELSE places_in_pred = {} /\ ~is_abstract(predicate_name)
        \* the step of do_obtain that the request takes
        step ==
            IF ~Ok(s) THEN "panicked"
            ELSE IF fuel = 0 THEN "unbounded"
            \* 1. Check if the requirement is satisfied
            ELSE IF contains_perm(s, req) = "Yes" THEN "satisfied"
            ELSE IF is_acc(req) /\ is_local(req.place) THEN "satisfied"
            \* 3. Obtain with an unfold
            ELSE IF prefix_preds # {}
            THEN IF AmountLeq(req.amount, s.pred[existing_pred_to_unfold])
                 THEN "unfold" ELSE "assert"
            \* 4. Obtain with a fold
            ELSE IF is_pred(req) /\ predicate_name = "" THEN "unwrap"
            ELSE IF is_pred(req) /\ can_fold THEN "fold"
            \* 5. Obtain from a quantified resource
            ELSE IF s.quant # {} THEN "quantified"
            ELSE "missing"
        \* Check if we are done
        done(action, r) ==
            IF r.ok THEN Success(r.st, <<action>> \o r.actions)
            ELSE Failure(r.st, req)
        unfolded(u) ==
            IF ~Ok(u.st) THEN Failure(u.st, req)
            ELSE done(u.action, do_obtain(u.st, req, FALSE, ord, fuel - 1))
        \* the asserts of the fold, and the fold
        fold_step(r, perm_amount, scaled) ==
            IF ~is_valid_for_specs(perm_amount) THEN "amount"
            ELSE IF ~contains_all_perms(r.st, scaled) THEN "body"
            ELSE IF is_simple_place(req.place) /\ ~contains_acc(r.st, req.place)
            THEN "acc"
            ELSE IF contains_pred(r.st, req.place) THEN "pred"
            ELSE "fold"
        folded(r, perm_amount, scaled, fstep) ==
            CASE fstep = "amount" ->
                   Failure(Panic(r.st, "update_perm_amount: not valid for specs"), req)
              [] fstep = "body" ->
                   Failure(Panic(r.st, "fold: assert contains_all_perms"), req)
              [] fstep = "acc" ->
                   Failure(Panic(r.st, "fold: assert contains_acc(req)"), req)
              [] fstep = "pred" ->
                   Failure(Panic(r.st, "fold: assert !contains_pred(req)"), req)
              [] fstep = "fold" ->
                   Success(insert_pred(
                             remove_all_perms(r.st, PermsToSeq(scaled, ord)),
                             req.place, perm_amount),
                           r.actions \o <<ActFold(req.place, perm_amount,
                                                  fold_variant)>>)
        fold(r, perm_amount) ==
            IF ~r.ok THEN r
            ELSE folded(r, perm_amount,
                        update_perm_amount_all(places_in_pred, perm_amount),
                        fold_step(r, perm_amount,
                                  update_perm_amount_all(places_in_pred,
                                                         perm_amount)))
        take(which) ==
            CASE which = "panicked" -> Failure(s, req)
              [] which = "unbounded" ->
                   Failure(Panic(s, "recursion not bounded"), req)
              [] which = "satisfied" -> Success(s, <<>>)
              [] which = "assert" ->
                   Failure(Panic(s, "assert perm_amount >= req.get_perm_amount()"),
                           req)
              [] which = "unfold" ->
                   unfolded(unfold(s, existing_pred_to_unfold,
                                   s.pred[existing_pred_to_unfold],
                                   find_variant(existing_pred_to_unfold, req.place),
                                   FALSE, ord))
              [] which = "unwrap" ->
                   Failure(Panic(s, "typed_ref_name().unwrap()"), req)
              [] which = "fold" ->
                   fold(obtain_each(s, PermsToSeq(places_in_pred, ord), ord,
                                    fuel - 1, <<>>),
                        FoldAmount(s, places_in_pred))
              [] which = "quantified" ->
                   LET result(r) == IF r.ok \/ ~Ok(r.st) THEN r
                                    ELSE Failure(r.st, req)
                   IN  result(handle_quantified_instances_results(
                                 s, req, get_all_quantified_instances(s, req, ord),
                                 ord, fuel))
              [] which = "missing" -> Failure(s, req)
    IN  take(step)

\* handle_quantified_instances_result of each instance in turn, up to the
\* first success
handle_quantified_instances_results(s, req, inst_results, ord, fuel) ==
    IF inst_results = <<>> \/ ~Ok(s) THEN Failure(s, req)
    ELSE LET quant == Head(inst_results)
             match_type == try_instantiate(quant, req.place)
             perm_amount == quant.amount
             again(u, r) ==
                 IF ~r.ok THEN r
                 ELSE Success(r.st, <<ActAssertion, u.action>> \o r.actions)
             unfolded(u) ==
                 IF ~Ok(u.st) THEN Failure(u.st, req)
                 ELSE again(u, do_obtain(u.st, [req EXCEPT !.amount = perm_amount],
                                         FALSE, ord, fuel - 1))
             handle ==
                 IF AmountLt(perm_amount, req.amount) THEN Failure(s, req)
                 ELSE IF match_type = "PerfectFieldAccMatch"
                 THEN IF ~is_acc(req)
                      THEN Failure(Panic(s, "assert req.is_acc()"), req)
                      ELSE Success(insert_perm(s, [req EXCEPT !.amount = perm_amount]),
                                   <<ActAssertion>>)
                 ELSE IF match_type = "PerfectPredAccMatch" /\ is_pred(req)
                 THEN Success(insert_perm(s, [req EXCEPT !.amount = perm_amount]),
                              <<ActAssertion>>)
                 ELSE IF match_type = "PrefixPredAccMatch" /\ is_acc(req)
                 THEN unfolded(unfold(insert_pred(s, quant.place, perm_amount),
                                      quant.place, perm_amount, None, TRUE, ord))
                 ELSE Failure(s, req)
             next(r) ==
                 IF r.ok \/ ~Ok(r.st) THEN r
                 ELSE handle_quantified_instances_results(
                          r.st, req, Tail(inst_results), ord, fuel)
         IN  next(handle)

\* Obtain the required permission: first the access to every proper
\* prefix, then the permission itself
RECURSIVE obtain_prefixes(_, _, _, _, _, _)
obtain_prefixes(s, prefixes, amount, in_join, ord, actions) ==
    IF prefixes = <<>> THEN Success(s, actions)
    ELSE LET then(r) ==
                 IF ~r.ok THEN r
                 ELSE obtain_prefixes(r.st, Tail(prefixes), amount, in_join, ord,
                                      actions \o r.actions)
         IN  then(do_obtain(s, Acc(Head(prefixes), amount), in_join, ord, MaxFuel))

obtain(s, req, in_join, ord) ==
    LET \* Then obtain the actual permission
        actual(proper_places_actions, r) ==
            IF ~r.ok THEN r ELSE Success(r.st, proper_places_actions \o r.actions)
        then(pre) ==
            IF ~pre.ok THEN pre
            ELSE actual(pre.actions, do_obtain(pre.st, req, in_join, ord, MaxFuel))
    IN  then(obtain_prefixes(s, all_proper_prefixes(req.place), req.amount,
                             in_join, ord, <<>>))

(***************************************************************************)
(* Joining two branch contexts (BranchCtxt::join).                         *)
(***************************************************************************)
\* no quantified resource is held, so no place is an instance of one
is_acc_an_instance(s, place) == FALSE

is_pred_an_instance(s, place) == FALSE

plain_acc_places(s) == {place \in acc_places(s) : ~is_acc_an_instance(s, place)}

plain_pred_places(s) == {place \in pred_places(s) : ~is_pred_an_instance(s, place)}

\* places_utils: the places and all the places above them
ancestors(initial) ==
    initial \cup {p \in Places : \E m \in initial : has_proper_prefix(m, p)}

filter_not_proper_extensions_of(left, right) ==
    {l \in left : ~(\E r \in right : has_proper_prefix(l, r))}

filter_proper_extensions_of(left, right) ==
    {l \in left : \E r \in right : has_proper_prefix(l, r)}

intersection(left, right) == left \cap right

compute_fold_target(left, right) ==
    LET conflicting_base_check(item_set, second_set) ==
            { get_parent(item) :
                item \in {i \in item_set :
                            /\ is_variant(i)
                            /\ ~(\E p \in second_set : has_prefix(p, i))} }
        conflicting_base == conflicting_base_check(left, right)
                            \cup conflicting_base_check(right, left)
        place_check(item, item_set, other_set) ==
            /\ ~(\E p \in item_set : has_proper_prefix(p, item))
            /\ ~(\E p \in other_set : has_prefix(p, item))
            /\ ~(\E base \in conflicting_base : has_prefix(item, base))
        places == {item \in left : place_check(item, left, right)}
                  \cup {item \in right : place_check(item, right, left)}
    IN  [acc_places |-> places,
         pred_places |-> {place \in conflicting_base :
                            ~(\E base \in conflicting_base :
                                has_proper_prefix(place, base))}]

\* the two branch contexts of a join and the actions emitted for each
JState(l, r, la, ra) == [l |-> l, r |-> r, la |-> la, ra |-> ra]

Swap(j) == JState(j.r, j.l, j.ra, j.la)

JOk(j) == Ok(j.l) /\ Ok(j.r)

DropActions(m, kind, places, missing) ==
    [i \in 1..Len(places) |->
        LET perm == [kind |-> kind, place |-> places[i], amount |-> m[places[i]]]
        IN  ActDrop(perm, IF missing = NoPerm THEN perm ELSE missing)]

\* remove the given places of one map of the state, with a Drop for each
drop_places(s, kind, places, missing, ord) ==
    LET seq == SetToSeq(places, ord)
        Keep(q) == q \notin places
    IN  IF kind = "acc"
        THEN [st |-> [s EXCEPT !.acc = MapRetain(s.acc, Keep)],
              actions |-> DropActions(s.acc, kind, seq, missing)]
        ELSE [st |-> [s EXCEPT !.pred = MapRetain(s.pred, Keep)],
              actions |-> DropActions(s.pred, kind, seq, missing)]

\* the closure remove_places of the fold loop
remove_places(s, pred_place, missing, ord) ==
    LET Below(m) == has_prefix(m, pred_place)
        drop_accs(s1) ==
            drop_places(s1, "acc",
                {q \in acc_places(s1) : has_proper_prefix(q, pred_place)},
                missing, ord)
        drop_preds(s1) ==
            drop_places(s1, "pred",
                {q \in pred_places(s1) : has_prefix(q, pred_place)},
                missing, ord)
        both(d1, d2) == [st |-> d2.st, actions |-> d1.actions \o d2.actions]
        then(d1) == both(d1, drop_preds(d1.st))
    IN  then(drop_accs(remove_moved_matching(s, Below)))

\* the closure try_obtain of the fold loop, j.l being its left_ctxt
try_obtain_pred(j, pred_perm, ord) ==
    IF ~JOk(j) THEN j
    ELSE LET removed(dl, dr) ==
                 JState(dl.st, dr.st, j.la \o dl.actions, j.ra \o dr.actions)
             then(res) ==
                 IF res.ok THEN JState(res.st, j.r, j.la \o res.actions, j.ra)
                 ELSE IF ~Ok(res.st) THEN JState(res.st, j.r, j.la, j.ra)
                 ELSE removed(
                        remove_places(res.st, pred_perm.place, res.missing, ord),
                        remove_places(j.r, pred_perm.place, res.missing, ord))
         IN  then(obtain(j.l, pred_perm, TRUE, ord))

\* Obtain predicates by folding
RECURSIVE join_fold(_, _, _)
join_fold(j, pred_places_seq, ord) ==
    IF pred_places_seq = <<>> \/ ~JOk(j) THEN j
    ELSE LET pred_place == Head(pred_places_seq)
             below(s) == SetToSeq({q \in acc_places(s) :
                                      has_proper_prefix(q, pred_place)}, ord)
             amounts == [i \in 1..Len(below(j.l)) |-> j.l.acc[below(j.l)[i]]]
                        \o [i \in 1..Len(below(j.r)) |-> j.r.acc[below(j.r)[i]]]
         IN  IF amounts = <<>>
             THEN JState(Panic(j.l, "join: get_perm_amount unwrap"), j.r, j.la, j.ra)
             ELSE LET pred_perm == Pred(pred_place, amounts[1])
                  IN  join_fold(
                        Swap(try_obtain_pred(
                               Swap(try_obtain_pred(j, pred_perm, ord)),
                               pred_perm, ord)),
                        Tail(pred_places_seq), ord)

\* the closure try_obtain of the unfold loop, j.l being its ctxt_left
try_obtain_acc(j, acc_place, ord) ==
    IF ~JOk(j) THEN [j |-> j, ok |-> FALSE]
    ELSE IF acc_place \in DOMAIN j.l.acc THEN [j |-> j, ok |-> TRUE]
    ELSE IF acc_place \notin DOMAIN j.r.acc
    THEN [j |-> JState(Panic(j.l, "join: index of a missing acc place"),
                       j.r, j.la, j.ra),
          ok |-> FALSE]
    ELSE LET perm == Acc(acc_place, j.r.acc[acc_place])
             then(res) ==
                 IF res.ok
                 THEN [j |-> JState(res.st, j.r, j.la \o res.actions, j.ra),
                       ok |-> TRUE]
                 ELSE [j |-> JState(res.st, remove_perm(j.r, perm), j.la,
                                    j.ra \o <<ActDrop(perm, res.missing)>>),
                       ok |-> FALSE]
         IN  then(obtain(j.l, perm, TRUE, ord))

\* Obtain access permissions by unfolding
RECURSIVE join_unfold(_, _, _)
\* the body of the unfold loop for one access place
join_unfold_place(j, acc_place, ord) ==
    LET then(t1) ==
            IF t1.ok THEN Swap(try_obtain_acc(Swap(t1.j), acc_place, ord).j)
            ELSE t1.j
    IN  then(try_obtain_acc(j, acc_place, ord))

join_unfold(j, acc_places_seq, ord) ==
    IF acc_places_seq = <<>> \/ ~JOk(j) THEN j
    ELSE join_unfold(join_unfold_place(j, Head(acc_places_seq), ord),
                     Tail(acc_places_seq), ord)

\* drop from the left context of j the given places of one kind
join_drop(j, kind, places, ord) ==
    IF ~JOk(j) THEN j
    ELSE LET then(d) == JState(d.st, j.r, j.la \o d.actions, j.ra)
         IN  then(drop_places(j.l, kind, places, NoPerm, ord))

\* Drop access permissions that are not present in the other branch
join_drop_acc_difference(j, ord) ==
    IF ~JOk(j) THEN j
    ELSE LET places == plain_acc_places(j.l) \ plain_acc_places(j.r)
             Below(m) == \E acc_place \in places : has_prefix(m, acc_place)
             then(d) == JState(remove_moved_matching(d.st, Below), j.r,
                               j.la \o d.actions, j.ra)
         IN  then(drop_places(j.l, "acc", places, NoPerm, ord))

\* a reconciliation of the amounts that leaves them as they are
join_downgrade_skipped(j, kind, places_seq) == j

\* If we have Read and Write, make both Read
RECURSIVE join_downgrade(_, _, _)
join_downgrade(j, kind, places_seq) ==
    IF places_seq = <<>> \/ ~JOk(j) THEN j
    ELSE LET place == Head(places_seq)
             lm == IF kind = "acc" THEN j.l.acc ELSE j.l.pred
             rm == IF kind = "acc" THEN j.r.acc ELSE j.r.pred
             perm == [kind |-> kind, place |-> place, amount |-> "Remaining"]
         IN  IF place \notin DOMAIN rm
             THEN JState(Panic(j.l, "join: assert other contains the place"),
                         j.r, j.la, j.ra)
             ELSE LET left_down(j0) ==
                          IF lm[place] = "Write" /\ rm[place] = "Read"
                          THEN JState(remove_perm(j0.l, perm), j0.r,
                                      j0.la \o <<ActDrop(perm, perm)>>, j0.ra)
                          ELSE j0
                      right_down(j1) ==
                          IF lm[place] = "Read" /\ rm[place] = "Write"
                          THEN JState(j1.l, remove_perm(j1.r, perm), j1.la,
                                      j1.ra \o <<ActDrop(perm, perm)>>)
                          ELSE j1
                  IN  join_downgrade(right_down(left_down(j)), kind,
                                     Tail(places_seq))

\* the steps of the reconciliation, in the order of the code
JoinSteps ==
    << "fold and unfold", "drop moved pred", "drop pred difference",
       "drop moved acc", "drop acc difference", "downgrade acc",
       "downgrade pred" >>

\* the access places to obtain by unfolding and the predicate places to
\* obtain by folding, without those that a moved path makes unreachable
fold_unfold_target(j, moved_paths) ==
    LET target == compute_fold_target(plain_acc_places(j.l),
                                      plain_acc_places(j.r))
    IN  [unfold_actual_acc |->
             filter_not_proper_extensions_of(target.acc_places, moved_paths),
         fold_actual_pred |->
             filter_not_proper_extensions_of(target.pred_places, moved_paths)]

join_step(j, step, moved_paths, ord) ==
    LET plain_places(s, kind) ==
            IF kind = "acc" THEN plain_acc_places(s) ELSE plain_pred_places(s)
        \* Obtain predicates by folding, then access permissions by unfolding
        reach ==
            LET loops(target) ==
                    join_unfold(
                        join_fold(j, SetToSeq(target.fold_actual_pred, ord), ord),
                        SetToSeq(target.unfold_actual_acc, ord), ord)
            IN  loops(fold_unfold_target(j, moved_paths))
        \* Drop permissions that can not be obtained due to a move
        drop_moved_left(j0, kind) ==
            join_drop(j0, kind,
                filter_proper_extensions_of(plain_places(j0.l, kind), moved_paths),
                ord)
        drop_moved(kind) ==
            Swap(drop_moved_left(Swap(drop_moved_left(j, kind)), kind))
        \* Drop predicate permissions that are not in the other branch
        preserved_preds == intersection(plain_pred_places(j.l),
                                        plain_pred_places(j.r))
        drop_not_preserved ==
            Swap(join_drop(
                   Swap(join_drop(j, "pred",
                            plain_pred_places(j.l) \ preserved_preds, ord)),
                   "pred", plain_pred_places(j.r) \ preserved_preds, ord))
        \* Drop access permissions that are not in the other branch
        drop_acc_difference ==
            Swap(join_drop_acc_difference(
                   Swap(join_drop_acc_difference(j, ord)), ord))
    IN  CASE step = "fold and unfold" -> reach
          [] step = "drop moved pred" -> drop_moved("pred")
          [] step = "drop pred difference" -> drop_not_preserved
          [] step = "drop moved acc" -> drop_moved("acc")
          [] step = "drop acc difference" -> drop_acc_difference
          \* If we have Read and Write, make both Read
          [] step = "downgrade acc" ->
               join_downgrade(j, "acc", SetToSeq(plain_acc_places(j.l), ord))
          [] step = "downgrade pred" ->
               join_downgrade(j, "pred", SetToSeq(plain_pred_places(j.l), ord))

RECURSIVE join_steps(_, _, _, _)
join_steps(j, todo, moved_paths, ord) ==
    IF todo = <<>> \/ ~JOk(j) THEN j
    ELSE join_steps(join_step(j, Head(todo), moved_paths, ord), Tail(todo),
                    moved_paths, ord)

\* a start of the reconciliation that sets the moved paths of the left only
join_start_left_only(l0, right) ==
    JState([l0 EXCEPT !.moved = ancestors(l0.moved \cup right.moved)], right,
           <<>>, <<>>)

\* the two contexts at the start of the reconciliation
join_start(l0, right) ==
    LET moved_paths == ancestors(l0.moved \cup right.moved)
    IN  JState([l0 EXCEPT !.moved = moved_paths],
               [right EXCEPT !.moved = moved_paths], <<>>, <<>>)

join(left, right, debug, ord) ==
    LET l0 == check_consistency(left, debug)
        moved_paths == ancestors(l0.moved \cup right.moved)
        finish(j) ==
            IF ~JOk(j) THEN j
            ELSE IF plain_acc_places(j.l) # plain_acc_places(j.r)
            THEN JState(Panic(j.l, "join: assert_eq acc places"), j.r, j.la, j.ra)
            ELSE IF plain_pred_places(j.l) # plain_pred_places(j.r)
            THEN JState(Panic(j.l, "join: assert_eq pred places"), j.r, j.la, j.ra)
            ELSE JState(check_consistency(j.l, debug), j.r, j.la, j.ra)
    IN  IF ~Ok(l0) \/ l0 = right THEN JState(l0, right, <<>>, <<>>)
        ELSE finish(join_steps(join_start(l0, right), JoinSteps, moved_paths,
                               ord))

(***************************************************************************)
(* Restoring dropped permissions (state.rs).                               *)
(***************************************************************************)
restore_acc(s, acc_place, perm) ==
    LET sum == IF acc_place \in DOMAIN s.acc
               THEN AmountAdd(perm, s.acc[acc_place]) ELSE perm
    IN  IF sum = Invalid THEN Panic(s, "PermAmount: invalid addition")
        ELSE IF is_simple_place(acc_place)
                /\ \E pred_place \in DOMAIN s.pred :
                      /\ is_simple_place(pred_place)
                      /\ has_proper_prefix(acc_place, pred_place)
        THEN s
        ELSE [s EXCEPT !.acc = MapPut(s.acc, acc_place, sum)]

restore_pred(s, pred_place, perm) ==
    LET sum == IF pred_place \in DOMAIN s.pred
               THEN AmountAdd(perm, s.pred[pred_place]) ELSE perm
        Keep(acc_place) == ~(is_simple_place(acc_place)
                             /\ has_proper_prefix(acc_place, pred_place))
        s1 == IF is_simple_place(pred_place)
              THEN [s EXCEPT !.acc = MapRetain(s.acc, Keep)] ELSE s
    IN  IF sum = Invalid THEN Panic(s, "PermAmount: invalid addition")
        ELSE [s1 EXCEPT !.pred = MapPut(s1.pred, pred_place, sum)]

restore_dropped_perm(s, item) ==
    IF ~Ok(s) THEN s
    ELSE LET Above(p) == has_prefix(item.place, p)
             s1 == remove_moved_matching(s, Above)
         IN  IF is_acc(item) THEN restore_acc(s1, item.place, item.amount)
             ELSE restore_pred(s1, item.place, item.amount)

RECURSIVE restore_each(_, _)
restore_each(s, items) ==
    IF items = <<>> \/ ~Ok(s) THEN s
    ELSE restore_each(restore_dropped_perm(s, Head(items)), Tail(items))

restore_dropped_perms(s, items, debug) ==
    check_consistency(restore_each(s, items), debug)

(***************************************************************************)
(* Spec: one branch context processes statements, is forked into two      *)
(* branches that process statements of their own, and the two are joined. *)
(***************************************************************************)
\* the permissions a statement may inhale, exhale or require
StmtPerms ==
    { Acc(p, amount) : p \in {q \in StructPlaces : ~is_local(q)},
                       amount \in {"Read", "Write"} }
    \cup { Pred(p, amount) : p \in PredPlaces \cap StructPlaces,
                             amount \in {"Read", "Write"} }

ExhalePerms ==
    StmtPerms
    \cup { Acc(p, "Remaining") : p \in {q \in StructPlaces : ~is_local(q)} }
    \cup { Pred(p, "Remaining") : p \in PredPlaces \cap StructPlaces }

\* the places an assignment may move out
MovePlaces == { <<"x", "f">> }

NoStep == [op |-> "none", br |-> "a", req |-> NoPerm, pre |-> NewState,
           ok |-> TRUE, actions |-> <<>>]

NoLast == [op |-> "none", br |-> "a", req |-> NoPerm, pre |-> NewState,
           preb |-> NewState, ok |-> TRUE, actions |-> <<>>,
           ractions |-> <<>>, missing |-> NoPerm, post |-> NewState,
           prev |-> NoStep]

\* what is remembered of the step before the last one: an obtain of the
\* same branch that unfolded a predicate
Summary(l, br) ==
    IF l.op = "obtain" /\ l.br = br /\ l.ok
       /\ \E i \in 1..Len(l.actions) : l.actions[i].kind = "Unfold"
    THEN [op |-> l.op, br |-> l.br, req |-> l.req, pre |-> l.pre,
          ok |-> l.ok, actions |-> l.actions]
    ELSE NoStep

Init ==
    /\ a = NewState
    /\ b = NewState
    /\ phase = "single"
    /\ last = NoLast
    /\ steps = 0
    /\ debug_assertions \in BOOLEAN
    /\ pf = [st |-> NewState]

Branch(br) == IF br = "a" THEN a ELSE b

\* the branch that may process a statement now
CanStep(br) ==
    LET allowed ==
            IF phase = "solo" /\ br = "a" THEN steps < MaxSoloSteps
            ELSE IF phase = "single" /\ br = "a" THEN steps < MaxSteps
            ELSE IF phase = "left" /\ br = "a" THEN steps < MaxBranchSteps
            ELSE IF phase = "left" /\ br = "b" THEN TRUE
            ELSE IF phase = "right" /\ br = "b" THEN steps < MaxBranchSteps
            ELSE FALSE
    IN  (Ok(a) /\ Ok(b) /\ allowed) = TRUE

Step(br, s, rec) ==
    /\ a' = IF br = "a" THEN s ELSE a
    /\ b' = IF br = "b" THEN s ELSE b
    /\ phase' = IF phase = "left" /\ br = "b" THEN "right" ELSE phase
    /\ steps' = IF phase = "left" /\ br = "b" THEN 1 ELSE steps + 1
    /\ last' = [rec EXCEPT !.br = br]
    /\ UNCHANGED <<debug_assertions, pf>>

\* apply_stmt of an inhale: the permission is inserted
Inhale(br, perm) ==
    /\ CanStep(br)
    /\ LET s == check_consistency(insert_perm(Branch(br), perm), FALSE)
       IN  /\ Ok(s)
           /\ Step(br, s, [NoLast EXCEPT !.op = "inhale", !.req = perm])

\* apply_stmt of an exhale: the permission is removed
Exhale(br, perm) ==
    /\ CanStep(br)
    /\ contains_perm(Branch(br), perm) = "Yes"
    /\ LET s == check_consistency(remove_perm(Branch(br), perm), FALSE)
       IN  /\ Ok(s)
           /\ Step(br, s, [NoLast EXCEPT !.op = "exhale", !.req = perm])

\* apply_stmt of an assignment that moves the place out
MoveOut(br, place) ==
    /\ CanStep(br)
    /\ contains_pred(Branch(br), place)
    /\ Branch(br).pred[place] = "Write"
    /\ LET Below(p) == ~has_prefix(p, place)
           ProperlyBelow(p) == ~has_proper_prefix(p, place)
           s0 == Branch(br)
           s1 == [s0 EXCEPT !.pred = MapRetain(s0.pred, Below),
                            !.acc = MapRetain(s0.acc, ProperlyBelow)]
           s == check_consistency(insert_moved(s1, place), FALSE)
       IN  /\ Ok(s)
           /\ Step(br, s, [NoLast EXCEPT !.op = "move",
                                         !.req = Pred(place, "Write")])

\* obtain_permissions of one permission
obtain_permissions(br, req, ord) ==
    /\ CanStep(br)
    /\ \E res \in {obtain(check_consistency(Branch(br), debug_assertions),
                          req, FALSE, ord)} :
          LET \* obtain_all unwraps the result of each obtain
              unwrap ==
                  IF ~Ok(res.st) THEN res.st
                  ELSE IF ~res.ok THEN Panic(res.st, "obtain_all: unreachable")
                  ELSE check_consistency(res.st, debug_assertions)
          IN  Step(br, unwrap,
                   [NoLast EXCEPT !.op = "obtain", !.req = req,
                                  !.pre = Branch(br),
                                  !.prev = Summary(last, br),
                                  !.ok = res.ok, !.actions = res.actions,
                                  !.missing = res.missing,
                                  !.post = res.st])

\* the branch context is cloned for the two successors of a branching
Fork ==
    /\ phase = "single" /\ Ok(a)
    /\ b' = a
    /\ phase' = "left"
    /\ steps' = 0
    /\ last' = [NoLast EXCEPT !.op = "fork"]
    /\ UNCHANGED <<a, debug_assertions, pf>>

Join(ord) ==
    /\ (phase \in {"left", "right"} /\ Ok(a) /\ Ok(b)) = TRUE
    /\ \E j \in {join(a, b, debug_assertions, ord)} :
          /\ a' = IF Ok(j.r) THEN j.l ELSE Panic(j.l, j.r.err)
          /\ b' = j.r
          /\ last' = [NoLast EXCEPT !.op = "join", !.pre = a, !.preb = b,
                                    !.ok = JOk(j), !.actions = j.la,
                                    !.ractions = j.ra, !.post = j.l]
    /\ phase' = "joined"
    /\ steps' = 0
    /\ UNCHANGED <<debug_assertions, pf>>

\* the permissions dropped by the last join
DroppedPerms ==
    {last.actions[i].perm : i \in {k \in 1..Len(last.actions) :
                                      last.actions[k].kind = "Drop"}}
    \cup {last.ractions[i].perm : i \in {k \in 1..Len(last.ractions) :
                                      last.ractions[k].kind = "Drop"}}

RestoreDropped(item) ==
    /\ phase = "joined" /\ last.op = "join" /\ Ok(a)
    /\ item \in DroppedPerms
    /\ LET s == restore_dropped_perms(a, <<item>>, debug_assertions)
       IN  /\ a' = s
           /\ last' = [NoLast EXCEPT !.op = "restore", !.req = item,
                                     !.pre = a, !.preb = b,
                                     !.post = restore_each(a, <<item>>)]
    /\ phase' = "restored"
    /\ UNCHANGED <<b, steps, debug_assertions, pf>>

Next ==
    \/ \E br \in {"a", "b"}, perm \in StmtPerms : Inhale(br, perm)
    \/ \E br \in {"a", "b"}, perm \in ExhalePerms : Exhale(br, perm)
    \/ \E br \in {"a", "b"}, place \in MovePlaces : MoveOut(br, place)
    \/ \E br \in {"a", "b"}, req \in StmtPerms, ord \in HashOrders :
          obtain_permissions(br, req, ord)
    \/ Fork
    \/ \E ord \in HashOrders : Join(ord)
    \/ \E item \in ExhalePerms : RestoreDropped(item)

Spec == Init /\ [][Next]_vars

(***************************************************************************)
(* SpecObtain: one branch context alone, which processes statements and   *)
(* obtains permissions and is never forked.                                *)
(***************************************************************************)
InitObtain ==
    /\ a = NewState
    /\ b = NewState
    /\ phase = "solo"
    /\ last = NoLast
    /\ steps = 0
    /\ debug_assertions \in BOOLEAN
    /\ pf = [st |-> NewState]

NextObtain ==
    \/ \E perm \in StmtPerms : Inhale("a", perm)
    \/ \E perm \in ExhalePerms : Exhale("a", perm)
    \/ \E place \in MovePlaces : MoveOut("a", place)
    \/ \E req \in StmtPerms, ord \in HashOrders :
          obtain_permissions("a", req, ord)

SpecObtain == InitObtain /\ [][NextObtain]_vars

(***************************************************************************)
(* SpecJoinObtain: one branch context alone, on which obtain is also       *)
(* called the way the closures of join call it, with in_join = true and    *)
(* the result handed back to the caller instead of being unwrapped.        *)
(***************************************************************************)
\* left_ctxt.obtain(&perm, true) of the closures try_obtain of join
obtain_in_join(req, ord) ==
    /\ CanStep("a")
    /\ \E res \in {obtain(a, req, TRUE, ord)} :
          Step("a", res.st,
               [NoLast EXCEPT !.op = "obtain in join", !.req = req,
                              !.pre = a, !.ok = res.ok,
                              !.actions = res.actions,
                              !.missing = res.missing, !.post = res.st])

NextJoinObtain ==
    \/ \E perm \in StmtPerms : Inhale("a", perm)
    \/ \E perm \in ExhalePerms : Exhale("a", perm)
    \/ \E place \in MovePlaces : MoveOut("a", place)
    \/ \E req \in StmtPerms, ord \in HashOrders :
          obtain_permissions("a", req, ord)
    \/ \E req \in StmtPerms, ord \in HashOrders : obtain_in_join(req, ord)

SpecJoinObtain == InitObtain /\ [][NextJoinObtain]_vars

(***************************************************************************)
(* SpecJoinUnfold: the two branches of a fork, on which a join starts and  *)
(* runs the body of its unfold loop for the first access place.            *)
(***************************************************************************)
\* join up to the end of the first iteration of "Obtain access permissions
\* by unfolding", when there is no predicate to obtain by folding
join_unfold_first(ord) ==
    /\ (phase \in {"left", "right"} /\ Ok(a) /\ Ok(b)) = TRUE
    /\ \E l0 \in {check_consistency(a, debug_assertions)} :
          /\ Ok(l0) /\ l0 # b
          /\ \E j0 \in {join_start(l0, b)} :
             \E target \in {fold_unfold_target(j0, j0.l.moved)} :
                /\ target.fold_actual_pred = {}
                /\ target.unfold_actual_acc # {}
                /\ \E acc_place \in {SetToSeq(target.unfold_actual_acc, ord)[1]} :
                   \E j \in {join_unfold_place(j0, acc_place, ord)} :
                      /\ a' = j.l
                      /\ b' = j.r
                      /\ last' = [NoLast EXCEPT
                                    !.op = "join unfold",
                                    !.req = Acc(acc_place,
                                                IF acc_place \in DOMAIN j0.l.acc
                                                THEN j0.l.acc[acc_place]
                                                ELSE j0.r.acc[acc_place]),
                                    !.pre = a, !.preb = b,
                                    !.ok = acc_place \in DOMAIN j.l.acc
                                           /\ acc_place \in DOMAIN j.r.acc,
                                    !.actions = j.la, !.ractions = j.ra,
                                    !.post = j.l]
    /\ phase' = "in join"
    /\ steps' = 0
    /\ UNCHANGED <<debug_assertions, pf>>

NextJoinUnfold ==
    \/ \E br \in {"a", "b"}, perm \in StmtPerms : Inhale(br, perm)
    \/ \E br \in {"a", "b"}, perm \in ExhalePerms : Exhale(br, perm)
    \/ \E br \in {"a", "b"}, place \in MovePlaces : MoveOut(br, place)
    \/ \E br \in {"a", "b"}, req \in StmtPerms, ord \in HashOrders :
          obtain_permissions(br, req, ord)
    \/ Fork
    \/ \E ord \in HashOrders : join_unfold_first(ord)

SpecJoinUnfold == Init /\ [][NextJoinUnfold]_vars

(***************************************************************************)
(* SpecEnum: the branch context of the enum local e, which processes      *)
(* statements, is forked into two branches and joined.                     *)
(***************************************************************************)
\* State::new, for a BranchCtxt::new over the local variable e
NewEnumState == [NewState EXCEPT !.acc = [p \in {<<"e">>} |-> "Write"]]

\* the permissions a statement over e may inhale or require
EnumStmtPerms ==
    { Acc(p, amount) : p \in {q \in EnumPlaces : ~is_local(q)},
                       amount \in {"Read", "Write"} }
    \cup { Pred(p, amount) : p \in PredPlaces \cap EnumPlaces,
                             amount \in {"Read", "Write"} }

InitEnum ==
    /\ a = NewEnumState
    /\ b = NewEnumState
    /\ phase = "single"
    /\ last = NoLast
    /\ steps = 0
    /\ debug_assertions \in BOOLEAN
    /\ pf = [st |-> NewState]

NextEnum ==
    \/ \E br \in {"a", "b"}, perm \in EnumStmtPerms : Inhale(br, perm)
    \/ \E br \in {"a", "b"}, perm \in EnumStmtPerms : Exhale(br, perm)
    \/ \E br \in {"a", "b"}, req \in EnumStmtPerms, ord \in HashOrders :
          obtain_permissions(br, req, ord)
    \/ Fork
    \/ \E ord \in HashOrders : Join(ord)

SpecEnum == InitEnum /\ [][NextEnum]_vars

(***************************************************************************)
(* Properties of obtain and join.                                          *)
(***************************************************************************)
\* the state has an entry of the permission's kind for its place
Holds(s, perm) ==
    IF is_acc(perm) THEN perm.place \in DOMAIN s.acc
    ELSE perm.place \in DOMAIN s.pred

HeldAmount(s, perm) ==
    IF is_acc(perm) THEN s.acc[perm.place] ELSE s.pred[perm.place]

PrefixesHeld(s, place) ==
    \A i \in 1..(Len(place) - 1) : SubSeq(place, 1, i) \in DOMAIN s.acc

\* the effect on the state of the statement an action stands for
apply_action(s, action) ==
    IF action.kind = "Unfold"
    THEN unfold(s, action.perm.place, action.perm.amount, action.variant,
                FALSE, "asc").st
    ELSE IF action.kind = "Fold"
    THEN LET body == update_perm_amount_all(
                        places_in_pred_of(action.perm.place, action.variant),
                        action.perm.amount)
         IN  insert_pred(remove_all_perms(s, PermsToSeq(body, "asc")),
                         action.perm.place, action.perm.amount)
    ELSE IF action.kind = "Drop" THEN remove_perm(s, action.perm)
    ELSE s

RECURSIVE Replay(_, _)
Replay(s, actions) ==
    IF actions = <<>> THEN s
    ELSE Replay(apply_action(s, Head(actions)), Tail(actions))

SameMaps(s, t) == s.acc = t.acc /\ s.pred = t.pred /\ s.quant = t.quant

JoinReturned == last.op = "join" /\ Ok(a) /\ Ok(b)

\* C1: after a.join(b) returns, the two states hold the same access map,
\* the same predicate map (places and amounts) and the same quantified
\* set.
C1_Original == JoinReturned => SameMaps(a, b)

ObtainSucceeded == last.op = "obtain" /\ last.ok /\ Ok(last.post)

C3_Original ==
    (last.op = "join" /\ Consistent(last.pre) /\ Consistent(last.preb))
        => last.ok

\* C4 as stated: an obtain of a permission that the state contains
\* succeeds with no action and leaves the state as it was.
C4_Original ==
    (last.op = "obtain" /\ Holds(last.pre, last.req)) =>
        (last.ok /\ last.actions = <<>> /\ last.post = last.pre)

\* C4: an obtain of a permission that the state contains, in a state
\* that holds the access to every proper prefix of its place, succeeds
\* with no action and leaves the state as it was.
C4_ObtainHeld ==
    (last.op = "obtain" /\ Holds(last.pre, last.req)
        /\ PrefixesHeld(last.pre, last.req.place)) =>
        (last.ok /\ last.actions = <<>> /\ last.post = last.pre)

\* an obtain of a held permission, asked for with more than is held
C4_Witness ==
    /\ last.op = "obtain" /\ last.ok
    /\ Holds(last.pre, last.req)
    /\ PrefixesHeld(last.pre, last.req.place)
    /\ Len(last.req.place) = 3
    /\ AmountLt(HeldAmount(last.pre, last.req), last.req.amount)

\* C5: an obtain of an access permission in a consistent state that can
\* not produce the permission returns a Failure that names a missing
\* permission and does not panic, also when the request is for Write
\* access beneath a predicate that is held with Read only.
C5_Original ==
    (last.op = "obtain" /\ is_acc(last.req) /\ Consistent(last.pre)
        /\ ~last.ok) =>
        (Ok(last.post) /\ last.missing # NoPerm)

\* the obtain before the last one unfolded exactly the predicate that the
\* last obtain asked for, and the last obtain succeeded
UnfoldedPlace == last.req.place

BeforeUnfold == last.prev.pre

FoldedBack ==
    /\ ObtainSucceeded /\ is_pred(last.req)
    /\ last.prev.op = "obtain"
    /\ UnfoldedPlace \in DOMAIN BeforeUnfold.pred
    /\ last.prev.actions =
         <<ActUnfold(UnfoldedPlace, BeforeUnfold.pred[UnfoldedPlace], None)>>
    /\ Consistent(BeforeUnfold)

NoAccUnderPred(s) ==
    ~(\E p \in DOMAIN s.acc, q \in DOMAIN s.pred : has_proper_prefix(p, q))

NoMovedOverlap(s) ==
    /\ ~(\E p \in DOMAIN s.acc, m \in s.moved : has_proper_prefix(p, m))
    /\ ~(\E p \in DOMAIN s.pred, m \in s.moved :
            has_prefix(p, m) \/ has_prefix(m, p))

\* C10: after an obtain_permissions, a join or a restore_dropped_perms
\* that starts from consistent states and returns, no access permission
\* is held beneath a held predicate and no held place overlaps a moved
\* place, in the branch context (for a join: in both).
C10_Original ==
    (/\ last.op \in {"obtain", "join", "restore"}
     /\ Consistent(last.pre)
     /\ last.op = "join" => Consistent(last.preb)
     /\ Ok(a) /\ Ok(b)) =>
        /\ NoAccUnderPred(Branch(last.br)) /\ NoMovedOverlap(Branch(last.br))
        /\ last.op = "join" => (NoAccUnderPred(b) /\ NoMovedOverlap(b))

(***************************************************************************)
(* SpecDelta: sequences of insert_acc/remove_acc and insert_pred/          *)
(* remove_pred on one place.  A fraction is counted as the pair            *)
(* <<number of Write, number of Read>>: Remaining is Write - Read.         *)
(***************************************************************************)
DeltaPlace == <<"x", "f">>

AmountValue(x) ==
    CASE x = "Write" -> <<1, 0>>
      [] x = "Read" -> <<0, 1>>
      [] x = "Remaining" -> <<1, -1>>
      [] OTHER -> <<0, 0>>

ValueAdd(u, v) == <<u[1] + v[1], u[2] + v[2]>>

ValueSub(u, v) == <<u[1] - v[1], u[2] - v[2]>>

Held(m, place) == IF place \in DOMAIN m THEN m[place] ELSE "none"

NoOp == [name |-> "none", amount |-> "none", before |-> "none"]

InitDelta ==
    /\ a = NewState
    /\ b = NewState
    /\ phase = "delta"
    /\ last = NoOp
    /\ steps = 0
    /\ debug_assertions = TRUE
    /\ pf = [st |-> NewState, accSum |-> <<0, 0>>, predSum |-> <<0, 0>>,
             exact |-> TRUE]

DeltaFrame == UNCHANGED <<a, b, phase, debug_assertions>>

DeltaInsertAcc(amount) ==
    /\ steps < MaxDeltaOps /\ Ok(pf.st)
    /\ steps' = steps + 1
    /\ last' = [name |-> "insert_acc", amount |-> amount,
                before |-> Held(pf.st.acc, DeltaPlace)]
    /\ pf' = [pf EXCEPT
                !.st = insert_acc(pf.st, DeltaPlace, amount),
                !.accSum = ValueAdd(@, AmountValue(amount)),
                !.exact = @ /\ ~(amount = "Read"
                                 /\ Held(pf.st.acc, DeltaPlace) = "Read")]
    /\ DeltaFrame

DeltaRemoveAcc(amount) ==
    /\ steps < MaxDeltaOps /\ Ok(pf.st)
    /\ steps' = steps + 1
    /\ last' = [name |-> "remove_acc", amount |-> amount,
                before |-> Held(pf.st.acc, DeltaPlace)]
    /\ pf' = [pf EXCEPT
                !.st = remove_acc(pf.st, DeltaPlace, amount),
                !.accSum = ValueSub(@, AmountValue(amount)),
                !.exact = @ /\ ~(Held(pf.st.acc, DeltaPlace) \in Amounts
                                 /\ AmountLt(Held(pf.st.acc, DeltaPlace), amount))]
    /\ DeltaFrame

DeltaInsertPred(amount) ==
    /\ steps < MaxDeltaOps /\ Ok(pf.st)
    /\ steps' = steps + 1
    /\ last' = [name |-> "insert_pred", amount |-> amount,
                before |-> Held(pf.st.pred, DeltaPlace)]
    /\ pf' = [pf EXCEPT
                !.st = insert_pred(pf.st, DeltaPlace, amount),
                !.predSum = ValueAdd(@, AmountValue(amount)),
                !.exact = @ /\ ~(amount = "Read"
                                 /\ Held(pf.st.pred, DeltaPlace) = "Read")]
    /\ DeltaFrame

DeltaRemovePred(amount) ==
    /\ steps < MaxDeltaOps /\ Ok(pf.st)
    /\ steps' = steps + 1
    /\ last' = [name |-> "remove_pred", amount |-> amount,
                before |-> Held(pf.st.pred, DeltaPlace)]
    /\ pf' = [pf EXCEPT
                !.st = remove_pred(pf.st, DeltaPlace, amount),
                !.predSum = ValueSub(@, AmountValue(amount)),
                !.exact = @ /\ ~(Held(pf.st.pred, DeltaPlace) \in Amounts
                                 /\ AmountLt(Held(pf.st.pred, DeltaPlace), amount))]
    /\ DeltaFrame

NextDelta ==
    \/ \E amount \in Amounts : DeltaInsertAcc(amount)
    \/ \E amount \in Amounts : DeltaRemoveAcc(amount)
    \/ \E amount \in Amounts : DeltaInsertPred(amount)
    \/ \E amount \in Amounts : DeltaRemovePred(amount)

SpecDelta == InitDelta /\ [][NextDelta]_vars

\* the amount stored equals the net sum, and no entry means a sum of zero
Conserved(m, sum) ==
    IF DeltaPlace \in DOMAIN m
    THEN AmountValue(m[DeltaPlace]) = sum /\ sum # <<0, 0>>
    ELSE sum = <<0, 0>>

\* C6 as claimed: every sequence of inserts and removes on one place that
\* does not panic leaves the net algebraic sum of the fractions as the
\* stored amount, and no entry exactly when the sum is zero.
C6_Original ==
    (phase = "delta" /\ Ok(pf.st))
        => Conserved(pf.st.acc, pf.accSum) /\ Conserved(pf.st.pred, pf.predSum)

\* C6 amended: the same, for the sequences in which no remove asks for more
\* than the place holds and no Read is inserted onto a held Read.
C6_FractionConservation ==
    (phase = "delta" /\ Ok(pf.st) /\ pf.exact)
        => Conserved(pf.st.acc, pf.accSum) /\ Conserved(pf.st.pred, pf.predSum)

C6_Witness ==
    /\ phase = "delta" /\ Ok(pf.st) /\ pf.exact
    /\ steps = 3
    /\ last.name = "remove_acc" /\ last.before = "Write"
    /\ Held(pf.st.acc, DeltaPlace) = "Read"
    /\ Held(pf.st.pred, DeltaPlace) = "Write"

\* the outcome of the insert that was applied last
InsertPanicked == ~Ok(pf.st)

InsertedOn(m) == Held(m, DeltaPlace)

\* C7: Read onto Read, Read onto Remaining (giving Write) and Write onto
\* nothing never panic; Read onto Write and Write onto Read panic.
C7_InsertPanics ==
    (phase = "delta" /\ last.name \in {"insert_acc", "insert_pred"}) =>
        LET m == IF last.name = "insert_acc" THEN pf.st.acc ELSE pf.st.pred
        IN  /\ (last.before = "Read" /\ last.amount = "Read")
                 => (Ok(pf.st) /\ InsertedOn(m) = "Read")
            /\ (last.before = "Remaining" /\ last.amount = "Read")
                 => (Ok(pf.st) /\ InsertedOn(m) = "Write")
            /\ (last.before = "none" /\ last.amount = "Write")
                 => (Ok(pf.st) /\ InsertedOn(m) = "Write")
            /\ (last.before = "Write" /\ last.amount = "Read") => InsertPanicked
            /\ (last.before = "Read" /\ last.amount = "Write") => InsertPanicked

C7_Witness ==
    /\ phase = "delta" /\ last.name = "insert_acc"
    /\ last.before = "Write" /\ last.amount = "Read"
    /\ InsertPanicked

(***************************************************************************)
(* SpecDiff: perm_difference (perm.rs) on sets of permissions over the     *)
(* places x.f, x.f.g and x.f.g.h.                                          *)
(***************************************************************************)
DiffPlaces == { <<"x", "f">>, <<"x", "f", "g">>, <<"x", "f", "g", "h">> }

DiffPerms ==
    [kind : {"acc", "pred"}, place : DiffPlaces, amount : Amounts]

\* a set of permissions with one amount for a place and kind
DiffSets ==
    { S \in SUBSET DiffPerms :
        /\ Cardinality(S) <= MaxDiffPerms
        /\ \A p, q \in S : (p.kind = q.kind /\ p.place = q.place) => p = q }

\* a difference that panics when left has less permission than right
DiffCancelsNoLess(left_amount, right_amount) ==
    \/ left_amount = "Read" /\ right_amount = "Read"
    \/ left_amount = "Write" /\ right_amount = "Write"

DiffCancels(left_amount, right_amount) ==
    \/ left_amount = "Read" /\ right_amount = "Read"
    \/ left_amount = "Read" /\ right_amount = "Write"
    \/ left_amount = "Write" /\ right_amount = "Write"

\* the permissions of one kind, as HashMap<place, amount>: the result, and
\* whether unreachable!() is hit
place_perm_difference(left, right) ==
    [ map |-> { l \in left : ~\E r \in right : r.place = l.place },
      panic |-> \E l \in left, r \in right :
                    r.place = l.place /\ ~DiffCancels(l.amount, r.amount) ]

perm_difference(left, right) ==
    LET accs == place_perm_difference({p \in left : is_acc(p)},
                                      {p \in right : is_acc(p)})
        preds == place_perm_difference({p \in left : is_pred(p)},
                                       {p \in right : is_pred(p)})
    IN  [ res |-> accs.map \cup preds.map,
          panic |-> accs.panic \/ preds.panic ]

InitDiff ==
    /\ a = NewState
    /\ b = NewState
    /\ phase = "diff"
    /\ last = NoOp
    /\ steps = 0
    /\ debug_assertions = TRUE
    /\ \E left \in DiffSets, right \in DiffSets :
          pf = [left |-> left, right |-> right, res |-> {}, panic |-> FALSE,
                done |-> FALSE]

ApplyPermDifference ==
    /\ phase = "diff" /\ ~pf.done
    /\ LET d == perm_difference(pf.left, pf.right)
       IN  pf' = [pf EXCEPT !.res = IF d.panic THEN {} ELSE d.res,
                            !.panic = d.panic, !.done = TRUE]
    /\ UNCHANGED <<a, b, phase, last, steps, debug_assertions>>

NextDiff == ApplyPermDifference

SpecDiff == InitDiff /\ [][NextDiff]_vars

\* C9 as claimed: perm_difference leaves in the result no permission whose
\* place is, or properly extends, a place of a permission of the same kind
\* and of a compatible fraction in right: perm_difference({x.f.g}, {x.f})
\* is empty.
C9_Original ==
    (phase = "diff" /\ pf.done /\ ~pf.panic) =>
        \A l \in pf.res : ~\E r \in pf.right :
            /\ r.kind = l.kind /\ has_prefix(l.place, r.place)
            /\ DiffCancels(l.amount, r.amount)

(***************************************************************************)
(* Properties of the last step of do_obtain.                               *)
(***************************************************************************)
\* the request reaches the last step of do_obtain in state s and finds no
\* quantified instance there: the accesses to its proper prefixes are held,
\* it is not held itself, no predicate is held on a proper prefix of its
\* place and a fold is not attempted
NothingProduces(s, req) ==
    /\ Ok(s)
    /\ PrefixesHeld(s, req.place)
    /\ contains_perm(s, req) = "No"
    /\ ~(is_acc(req) /\ is_local(req.place))
    /\ ~(\E p \in pred_places(s) : has_proper_prefix(req.place, p))
    /\ ~(is_pred(req)
         /\ \/ \E p \in acc_places(s) : has_proper_prefix(p, req.place)
            \/ /\ places_in_pred_of(req.place, None) = {}
               /\ ~is_abstract(typed_ref_name(req.place)))
    /\ s.quant = {}

\* C11: an obtain with in_join = true of a Read permission that neither an
\* unfold, a fold nor a quantified instance can produce does not return a
\* failure.
C11_Original ==
    (last.op = "obtain in join" /\ last.req.amount = "Read"
        /\ NothingProduces(last.pre, last.req)) => last.ok

(***************************************************************************)
(* Properties of the loops of join.                                        *)
(***************************************************************************)
\* what the state holds under the place: the accesses on its proper
\* extensions and the predicates on the place and on its extensions
PermsUnder(s, place) ==
    { Acc(p, s.acc[p]) : p \in {q \in DOMAIN s.acc : has_proper_prefix(q, place)} }
    \cup { Pred(p, s.pred[p]) : p \in {q \in DOMAIN s.pred : has_prefix(q, place)} }

\* the permissions that the Drop actions of the list name
Dropped(actions) ==
    { actions[i].perm : i \in {k \in 1..Len(actions) : actions[k].kind = "Drop"} }

\* the permissions of the maps of s that t does not hold any more
Removed(s, t) ==
    { Acc(p, s.acc[p]) : p \in DOMAIN s.acc \ DOMAIN t.acc }
    \cup { Pred(p, s.pred[p]) : p \in DOMAIN s.pred \ DOMAIN t.pred }

UnfoldFailed == last.op = "join unfold" /\ ~last.ok /\ Ok(a) /\ Ok(b)

\* C12: when the obtain of a candidate access place fails on one side in
\* the unfold loop of join, then after that iteration neither branch holds
\* an access or predicate permission under the place, and every permission
\* removed from a branch is named by a Drop in the actions of that branch.
C12_Original ==
    UnfoldFailed =>
        /\ PermsUnder(a, last.req.place) = {}
        /\ PermsUnder(b, last.req.place) = {}
        /\ last.req.place \notin DOMAIN a.acc \cup DOMAIN b.acc
        /\ Removed(last.pre, a) \subseteq Dropped(last.actions)
        /\ Removed(last.preb, b) \subseteq Dropped(last.ractions)

\* the map of the state for the kind of permission
MapOf(s, kind) == IF kind = "acc" THEN s.acc ELSE s.pred

\* s holds the place with Write and t holds it with Read
WriteAndRead(s, t, kind, p) ==
    /\ p \in DOMAIN MapOf(s, kind) /\ MapOf(s, kind)[p] = "Write"
    /\ p \in DOMAIN MapOf(t, kind) /\ MapOf(t, kind)[p] = "Read"

ReadInBoth(kind, p) ==
    /\ p \in DOMAIN MapOf(a, kind) /\ MapOf(a, kind)[p] = "Read"
    /\ p \in DOMAIN MapOf(b, kind) /\ MapOf(b, kind)[p] = "Read"

DropOfRemaining(kind, p) ==
    [kind |-> kind, place |-> p, amount |-> "Remaining"]

HeldByBoth(kind, p) ==
    p \in DOMAIN MapOf(a, kind) /\ p \in DOMAIN MapOf(b, kind)

\* C13 as stated: after a join every place that one branch held with
\* Write and the other with Read before the join is held with Read by
\* both, and the actions of the branch that held Write have a Drop of the
\* Remaining amount of the place.
C13_Original ==
    JoinReturned =>
        \A kind \in {"acc", "pred"}, p \in Places :
            /\ WriteAndRead(last.pre, last.preb, kind, p) =>
                  /\ ReadInBoth(kind, p)
                  /\ DropOfRemaining(kind, p) \in Dropped(last.actions)
            /\ WriteAndRead(last.preb, last.pre, kind, p) =>
                  /\ ReadInBoth(kind, p)
                  /\ DropOfRemaining(kind, p) \in Dropped(last.ractions)

\* C13: after a join every place that one branch held with Write and the
\* other with Read before the join, and that both branches still hold
\* after it, is held with Read by both, and the actions of the branch that
\* held Write have a Drop of the Remaining amount of the place.
C13_Downgrade ==
    JoinReturned =>
        \A kind \in {"acc", "pred"}, p \in Places :
            /\ (WriteAndRead(last.pre, last.preb, kind, p) /\ HeldByBoth(kind, p))
                  => /\ ReadInBoth(kind, p)
                     /\ DropOfRemaining(kind, p) \in Dropped(last.actions)
            /\ (WriteAndRead(last.preb, last.pre, kind, p) /\ HeldByBoth(kind, p))
                  => /\ ReadInBoth(kind, p)
                     /\ DropOfRemaining(kind, p) \in Dropped(last.ractions)

\* a join of a branch that held a predicate with Write and a branch that
\* held it with Read, which both hold with Read afterwards
C13_Witness ==
    /\ JoinReturned
    /\ \E p \in Places :
          /\ WriteAndRead(last.preb, last.pre, "pred", p)
          /\ ReadInBoth("pred", p)
          /\ DropOfRemaining("pred", p) \in Dropped(last.ractions)

\* the ancestor closure of the union of the moved sets before the join
MovedClosure == ancestors(last.pre.moved \cup last.preb.moved)

\* C14: after a.join(b) the moved sets of a and b are equal and hold only
\* places of the ancestor closure of the union of the two moved sets from
\* before the join; they are that closure when the two states differed and
\* the join had no predicate to obtain by folding.
C14_MovedEqual ==
    JoinReturned =>
        /\ a.moved = b.moved
        /\ a.moved \subseteq MovedClosure
        /\ (last.pre # last.preb
             /\ fold_unfold_target(join_start(last.pre, last.preb),
                                   MovedClosure).fold_actual_pred = {})
               => a.moved = MovedClosure

\* a join of a branch that moved a place out and a branch that did not
C14_Witness ==
    /\ JoinReturned
    /\ last.pre.moved # last.preb.moved
    /\ a.moved = {<<"x">>, <<"x", "f">>}
    /\ b.moved = a.moved

\* the enum places that the two branches have unfolded differently before
\* the join: a variant that one holds and the other does not
conflicting_enums ==
    { get_parent(v) :
        v \in { q \in Places :
                  /\ is_variant(q)
                  /\ \/ /\ contains_acc(last.pre, q)
                        /\ ~(\E p \in acc_places(last.preb) : has_prefix(p, q))
                     \/ /\ contains_acc(last.preb, q)
                        /\ ~(\E p \in acc_places(last.pre) : has_prefix(p, q)) } }

NothingUnder(s, place) ==
    /\ ~(\E p \in acc_places(s) : has_proper_prefix(p, place))
    /\ ~(\E p \in pred_places(s) : has_prefix(p, place))

\* C15: when the two branches have the enum place e unfolded to different
\* variants, or unfolded in only one of them, then after the join neither
\* branch holds an access beneath a variant of e, and either both hold the
\* predicate on e or neither holds any permission under e.
C15_Original ==
    JoinReturned =>
        \A e \in conflicting_enums :
            /\ \A s \in {a, b} :
                  ~(\E p \in acc_places(s), v \in VariantNames :
                        has_prefix(p, e \o <<v>>))
            /\ \/ contains_pred(a, e) /\ contains_pred(b, e)
               \/ NothingUnder(a, e) /\ NothingUnder(b, e)

(***************************************************************************)
(* SpecStmt: one branch context through which the statements unfold,       *)
(* fold and assignment are passed: the permissions each one requires are   *)
(* obtained, then the statement is applied.  The predicate I (body         *)
(* acc(self.val)) on the local y is the Foo(x) of the end-to-end scenario. *)
(***************************************************************************)
\* vir::Stmt::Unfold, Fold (the place and the amount) and Assign (the lhs)
Stmt(kind, place, amount) == [kind |-> kind, place |-> place, amount |-> amount]

Stmts ==
    { Stmt(kind, p, amount) : kind \in {"Unfold", "Fold"},
                              p \in {<<"y">>, <<"x">>, <<"x", "f">>},
                              amount \in {"Read", "Write"} }
    \cup { Stmt("Assign", p, "Write") : p \in {<<"y", "val">>, <<"x", "f", "val">>} }

\* RequiredPermissionsGetter for vir::Expr, of a place
place_get_required_permissions(place) ==
    IF is_local(place) THEN {} ELSE {Acc(place, "Read")}

init_perm_amount(perm, new_perm) == [perm EXCEPT !.amount = new_perm]

\* a statement whose assignment requires the predicate of the base as well
get_required_permissions_with_base(stmt) ==
    CASE stmt.kind = "Assign" ->
            {Acc(stmt.place, "Write"), Pred(get_parent(stmt.place), "Write")}
      [] stmt.kind = "Fold" ->
            { init_perm_amount(perm, stmt.amount) :
                perm \in places_in_pred_of(stmt.place, None) }
      [] stmt.kind = "Unfold" ->
            { init_perm_amount(perm, stmt.amount) :
                perm \in place_get_required_permissions(stmt.place) }

\* RequiredPermissionsGetter for vir::Stmt; the rhs of an assignment is a
\* constant, which requires nothing
get_required_permissions(stmt) ==
    CASE stmt.kind = "Assign" -> {Acc(stmt.place, "Write")}
      [] stmt.kind = "Fold" ->
            { init_perm_amount(perm, stmt.amount) :
                perm \in places_in_pred_of(stmt.place, None) }
      [] stmt.kind = "Unfold" ->
            { init_perm_amount(perm, stmt.amount) :
                perm \in place_get_required_permissions(stmt.place) }

RECURSIVE obtain_all(_, _, _, _)
obtain_all(s, reqs, ord, actions) ==
    IF reqs = <<>> \/ ~Ok(s) THEN [st |-> s, actions |-> actions]
    ELSE LET then(res) ==
                 IF ~Ok(res.st) THEN [st |-> res.st, actions |-> actions]
                 ELSE IF ~res.ok
                 THEN [st |-> Panic(res.st, "obtain_all: unwrap of a Failure"),
                       actions |-> actions]
                 ELSE obtain_all(res.st, Tail(reqs), ord,
                                 actions \o res.actions)
         IN  then(obtain(s, Head(reqs), FALSE, ord))

\* Stmt::apply_on_state
apply_on_state(s, stmt) ==
    CASE stmt.kind = "Unfold" ->
            apply_action(s, ActUnfold(stmt.place, stmt.amount, None))
      [] stmt.kind = "Fold" ->
            apply_action(s, ActFold(stmt.place, stmt.amount, None))
      [] stmt.kind = "Assign" ->
            LET Below(p) == ~has_prefix(p, stmt.place)
                ProperlyBelow(p) == ~has_proper_prefix(p, stmt.place)
                s1 == remove_moved_matching(s, LAMBDA p : has_prefix(p, stmt.place))
            IN  [s1 EXCEPT !.pred = MapRetain(s1.pred, Below),
                           !.acc = MapRetain(s1.acc, ProperlyBelow)]

\* a state that holds the local and its predicate with Write
WithPred(local) ==
    [NewState EXCEPT !.acc = [p \in {local} |-> "Write"],
                     !.pred = [p \in {local} |-> "Write"]]

\* what is remembered of a step
StmtStep(l) ==
    [op |-> l.op, req |-> l.req, pre |-> l.pre, ok |-> l.ok,
     actions |-> l.actions]

\* what is remembered of the two steps before the last one
History(l) ==
    [op |-> l.op, req |-> l.req, pre |-> l.pre, ok |-> l.ok,
     actions |-> l.actions, prev |-> StmtStep(l.prev)]

StmtPerm(stmt) ==
    IF stmt.kind = "Assign" THEN Acc(stmt.place, stmt.amount)
    ELSE Pred(stmt.place, stmt.amount)

InitStmt ==
    /\ a \in {WithPred(<<"y">>), WithPred(<<"x">>)}
    /\ b = NewState
    /\ phase = "solo"
    /\ last = NoLast
    /\ steps = 0
    /\ debug_assertions \in BOOLEAN
    /\ pf = [st |-> NewState]

\* obtain_permissions of what the statement requires, then apply_stmt
replace_stmt(stmt, ord) ==
    /\ CanStep("a")
    /\ \E res \in {obtain_all(check_consistency(a, debug_assertions),
                              PermsToSeq(get_required_permissions(stmt), ord),
                              ord, <<>>)} :
          \E s \in {apply_on_state(check_consistency(res.st, debug_assertions),
                                   stmt)} :
             /\ Ok(res.st) => Ok(check_consistency(s, FALSE))
             /\ Step("a", s,
                     [NoLast EXCEPT !.op = stmt.kind, !.req = StmtPerm(stmt),
                                    !.pre = a, !.ok = Ok(res.st),
                                    !.actions = res.actions, !.post = res.st,
                                    !.prev = History(last)])

NextStmt == \E stmt \in Stmts, ord \in HashOrders : replace_stmt(stmt, ord)

SpecStmt == InitStmt /\ [][NextStmt]_vars

\* the last three statements were unfold I(y); y.val := const; fold I(y),
\* the first of them in the state that holds only Pred(y, Write) and the
\* access to the local y
ScenarioRan ==
    /\ Ok(a)
    /\ last.op = "Fold" /\ last.req = Pred(<<"y">>, "Write")
    /\ last.prev.op = "Assign" /\ last.prev.req = Acc(<<"y", "val">>, "Write")
    /\ last.prev.prev.op = "Unfold"
    /\ last.prev.prev.req = Pred(<<"y">>, "Write")
    /\ last.prev.prev.pre = WithPred(<<"y">>)

ScenarioEnd ==
    /\ a.pred = [p \in {<<"y">>} |-> "Write"]
    /\ ~contains_acc(a, <<"y", "val">>)

NewFoldState ==
    [NewState EXCEPT !.acc = [p \in {<<"x">>, <<"z">>} |-> "Write"]]

\* the permissions a statement over x and z may inhale, exhale or require
FoldStmtPerms ==
    StmtPerms \cup { Pred(p, amount) : p \in PredPlaces \cap AbstractPlaces,
                                      amount \in {"Read", "Write"} }

InitFold ==
    /\ a = NewFoldState
    /\ b = NewState
    /\ phase = "solo"
    /\ last = NoLast
    /\ steps = 0
    /\ debug_assertions \in BOOLEAN
    /\ pf = [st |-> NewState]

\* obtain: the prefixes, then do_obtain of the request
obtain_call(req, in_join, ord) ==
    /\ CanStep("a")
    /\ \E pre \in {obtain_prefixes(a, all_proper_prefixes(req.place),
                                   req.amount, in_join, ord, <<>>)} :
          IF ~pre.ok \/ ~Ok(pre.st)
          THEN Step("a", pre.st,
                    [NoLast EXCEPT !.op = "obtain prefixes", !.req = req,
                                   !.pre = a, !.preb = pre.st, !.ok = pre.ok,
                                   !.actions = pre.actions,
                                   !.missing = pre.missing, !.post = pre.st])
          ELSE \E res \in {do_obtain(pre.st, req, in_join, ord, MaxFuel)} :
                  Step("a", res.st,
                       [NoLast EXCEPT !.op = "do_obtain", !.req = req,
                                      !.pre = a, !.preb = pre.st,
                                      !.ok = res.ok, !.actions = res.actions,
                                      !.missing = res.missing,
                                      !.post = res.st])

NextFold ==
    \/ \E perm \in FoldStmtPerms : Inhale("a", perm)
    \/ \E perm \in ExhalePerms : Exhale("a", perm)
    \/ \E req \in FoldStmtPerms, ord \in HashOrders :
          obtain_call(req, FALSE, ord)

SpecFold == InitFold /\ [][NextFold]_vars

\* do_obtain was entered for a predicate permission
DoObtainPred == last.op = "do_obtain" /\ is_pred(last.req)

\* some held access properly extends the place, or the body of the
\* predicate requires nothing and the predicate is not abstract
MayFold(s, req) ==
    \/ \E p \in acc_places(s) : has_proper_prefix(p, req.place)
    \/ /\ get_permissions_with_variant(typed_ref_name(req.place), None) = {}
       /\ typed_ref_name(req.place) \notin AbstractNames

FoldsOf(actions, place) ==
    {i \in 1..Len(actions) :
        actions[i].kind = "Fold" /\ actions[i].perm.place = place}

\* C17: do_obtain emits a Fold of the requested predicate only if some
\* held access properly extends the requested place, or the body requires
\* nothing and the predicate is not abstract; otherwise, when the request
\* is neither held nor under a held predicate, it returns the request
\* itself as missing, with no action and the state untouched: nothing of
\* the body was requested.
C17_FoldOnlyIf ==
    DoObtainPred =>
        /\ FoldsOf(last.actions, last.req.place) # {}
              => MayFold(last.preb, last.req)
        /\ (/\ ~MayFold(last.preb, last.req)
            /\ contains_perm(last.preb, last.req) = "No"
            /\ ~(\E p \in pred_places(last.preb) :
                    has_proper_prefix(last.req.place, p)))
              => /\ ~last.ok
                 /\ last.actions = <<>>
                 /\ last.missing = last.req
                 /\ last.post = last.preb

\* a predicate was folded from the accesses held beneath it
C17_Witness ==
    /\ DoObtainPred
    /\ last.ok
    /\ FoldsOf(last.actions, last.req.place) # {}
    /\ get_permissions_with_variant(typed_ref_name(last.req.place), None) # {}

(***************************************************************************)
(* SpecQuant: one branch context over the locals x and z that also holds   *)
(* quantified resources without bound variables, and on which access       *)
(* permissions are obtained.                                               *)
(***************************************************************************)
\* the quantified resources a statement may inhale: predicates
QuantPerms ==
    { Pred(p, amount) : p \in {<<"z">>, <<"x", "f">>, <<"x", "g">>},
                        amount \in {"Read", "Write"} }

\* the access permissions a statement may require
AccReqs ==
    { Acc(p, amount) : p \in {<<"z", "val">>, <<"x", "f">>, <<"x", "g">>,
                              <<"x", "f", "val">>},
                       amount \in {"Read", "Write"} }

\* apply_stmt of an inhale of a quantified resource
InhaleQuant(br, quant) ==
    /\ CanStep(br)
    /\ LET s == check_consistency(insert_quant(Branch(br), quant), FALSE)
       IN  /\ Ok(s)
           /\ Step(br, s, [NoLast EXCEPT !.op = "inhale quantified",
                                         !.req = quant])

NextQuant ==
    \/ \E perm \in FoldStmtPerms : Inhale("a", perm)
    \/ \E quant \in QuantPerms : InhaleQuant("a", quant)
    \/ \E req \in AccReqs, ord \in HashOrders :
          obtain_permissions("a", req, ord)

SpecQuant == InitFold /\ [][NextQuant]_vars

\* C18: every call to obtain returns, with Success or with a Failure: the
\* recursion of do_obtain through the unfold, fold and quantified-instance
\* steps never goes deeper than MaxFuel calls.
C18_Original ==
    last.op = "obtain" => a.err # "recursion not bounded"

(***************************************************************************)
(* Properties of perm_difference on one place.                             *)
(***************************************************************************)
\* the pairs of a permission of left and one of right of the same kind on
\* the same place
SamePlacePairs ==
    { c \in pf.left \X pf.right :
        c[1].kind = c[2].kind /\ c[1].place = c[2].place }

begin_frame(s) ==
    LET NonLocal(p) == ~is_local(p)
        Local(p) == is_local(p)
        framed_perms ==
            { Acc(p, s.acc[p]) : p \in {q \in DOMAIN s.acc : NonLocal(q)} }
            \cup { Pred(p, s.pred[p]) : p \in DOMAIN s.pred }
    IN  [s EXCEPT !.acc = MapRetain(s.acc, Local),
                  !.pred = EmptyMap,
                  !.framing_stack = Append(@, framed_perms)]

\* an end_frame that takes the oldest frame of the stack
end_frame_oldest(s, ord) ==
    IF s.framing_stack = <<>>
    THEN Panic(s, "end_frame: unwrap of an empty framing stack")
    ELSE LET framed_perms == s.framing_stack[1]
             popped == [s EXCEPT !.framing_stack = Tail(@)]
         IN  insert_all_perms(popped, PermsToSeq(framed_perms, ord))

\* State::end_frame
end_frame(s, ord) ==
    IF s.framing_stack = <<>>
    THEN Panic(s, "end_frame: unwrap of an empty framing stack")
    ELSE LET framed_perms == s.framing_stack[Len(s.framing_stack)]
             popped == [s EXCEPT !.framing_stack =
                                    SubSeq(@, 1, Len(s.framing_stack) - 1)]
         IN  insert_all_perms(popped, PermsToSeq(framed_perms, ord))

BeginFrame ==
    /\ CanStep("a")
    /\ Len(a.framing_stack) < MaxFrames
    /\ Step("a", begin_frame(a),
            [NoLast EXCEPT !.op = "begin_frame", !.pre = a])

EndFrame(ord) ==
    /\ CanStep("a")
    /\ a.framing_stack # <<>>
    /\ Step("a", end_frame(a, ord),
            [NoLast EXCEPT !.op = "end_frame", !.pre = a,
                           !.prev = [NoStep EXCEPT !.op = last.op,
                                                   !.pre = last.pre]])

NextFrame ==
    \/ \E perm \in FoldStmtPerms : Inhale("a", perm)
    \/ \E quant \in {q \in QuantPerms : ~is_local(q.place)} :
          InhaleQuant("a", quant)
    \/ BeginFrame
    \/ \E ord \in HashOrders : EndFrame(ord)

SpecFrame == InitFold /\ [][NextFrame]_vars

\* C20: after begin_frame the state holds no permission on a non-local
\* place: the acc map holds only local variables, the pred map and the
\* quantified set are empty, and every permission that was hidden is in
\* the frame pushed on top of the framing stack.
C20_Original ==
    last.op = "begin_frame" =>
        /\ \A p \in DOMAIN a.acc : is_local(p)
        /\ a.pred = EmptyMap
        /\ a.quant = {}
        /\ Len(a.framing_stack) = Len(last.pre.framing_stack) + 1
        /\ \A p \in DOMAIN last.pre.acc :
              ~is_local(p) =>
                  Acc(p, last.pre.acc[p]) \in a.framing_stack[Len(a.framing_stack)]
        /\ \A p \in DOMAIN last.pre.pred :
              Pred(p, last.pre.pred[p]) \in a.framing_stack[Len(a.framing_stack)]

\* the frame on top of the framing stack before the last end_frame
TopFrame == last.pre.framing_stack[Len(last.pre.framing_stack)]

\* C21: begin_frame immediately followed by end_frame restores the acc map,
\* the pred map, the quantified set and the moved set exactly as they were
\* before begin_frame; and frames are restored last in, first out: every
\* end_frame takes the frame pushed by the latest begin_frame that was not
\* ended yet, leaves the older frames on the stack as they were, and puts
\* every permission of that frame back into the state.
C21_FrameRestored ==
    last.op = "end_frame" =>
        /\ Ok(a) =>
              /\ a.framing_stack =
                    SubSeq(last.pre.framing_stack, 1,
                           Len(last.pre.framing_stack) - 1)
              /\ \A perm \in TopFrame :
                    /\ is_acc(perm) => contains_acc(a, perm.place)
                    /\ is_pred(perm) => contains_pred(a, perm.place)
              /\ a.quant = last.pre.quant /\ a.moved = last.pre.moved
        /\ last.prev.op = "begin_frame" =>
              /\ a.acc = last.prev.pre.acc
              /\ a.pred = last.prev.pre.pred
              /\ a.quant = last.prev.pre.quant
              /\ a.moved = last.prev.pre.moved
              /\ a.framing_stack = last.prev.pre.framing_stack
              /\ Ok(a)

\* the inner pair of two nested frames is ended right after it began: the
\* state with the permission inhaled inside the outer frame is restored
\* and the outer frame, holding a predicate hidden before, is still on the
\* stack
C21_Witness ==
    /\ last.op = "end_frame" /\ last.prev.op = "begin_frame"
    /\ Len(last.prev.pre.framing_stack) = 1
    /\ \E perm \in last.prev.pre.framing_stack[1] : is_pred(perm)
    /\ \E p \in DOMAIN last.prev.pre.acc : ~is_local(p)
    /\ a.acc = last.prev.pre.acc /\ a.pred = last.prev.pre.pred
    /\ Len(a.framing_stack) = 1

(***************************************************************************)
(* SpecRestore: one branch context whose statements inhale, exhale and     *)
(* move permissions, and to which permissions dropped earlier are restored *)
(* when the borrow that dropped them expires.                              *)
(***************************************************************************)
\* restore_dropped_perms of one permission dropped earlier
RestoreLater(item) ==
    /\ CanStep("a")
    /\ Step("a", restore_dropped_perms(a, <<item>>, debug_assertions),
            [NoLast EXCEPT !.op = "restore", !.req = item, !.pre = a,
                           !.post = restore_each(a, <<item>>)])

NextRestore ==
    \/ \E perm \in StmtPerms : Inhale("a", perm)
    \/ \E perm \in ExhalePerms : Exhale("a", perm)
    \/ \E place \in MovePlaces : MoveOut("a", place)
    \/ \E item \in ExhalePerms : RestoreLater(item)

SpecRestore == InitObtain /\ [][NextRestore]_vars

\* C22: restore_dropped_perm of a permission whose place is already held
\* (as an access for an access, as a predicate for a predicate) does not
\* panic, and the amount stored for the place afterwards is the larger of
\* the amount held before and the restored amount.
C22_Original ==
    (last.op = "restore" /\ contains_perm(last.pre, last.req) = "Yes") =>
        /\ Ok(last.post)
        /\ HeldAmount(last.post, last.req) =
              IF AmountLeq(last.req.amount, HeldAmount(last.pre, last.req))
              THEN HeldAmount(last.pre, last.req)
              ELSE last.req.amount

(***************************************************************************)
(* SpecExpr: the permissions of an expression (permissions.rs).  An        *)
(* expression is a constant, a place, an access predicate on a field or on *)
(* a predicate, a binary operation or an unfolding.                        *)
(***************************************************************************)
ExConst == [tag |-> "Const"]

\* vir::Expr::Local or vir::Expr::Field
ExPlace(place) == [tag |-> "Place", place |-> place]

ExFieldAccessPredicate(place, amount) ==
    [tag |-> "FieldAccessPredicate", place |-> place, amount |-> amount]

ExPredicateAccessPredicate(place, amount) ==
    [tag |-> "PredicateAccessPredicate", place |-> place, amount |-> amount]

ExBinOp(left, right) == [tag |-> "BinOp", left |-> left, right |-> right]

ExUnfolding(place, body, amount) ==
    [tag |-> "Unfolding", place |-> place, body |-> body, amount |-> amount]

\* the expressions without sub-expressions
ExprAtoms ==
    {ExConst}
    \cup { ExPlace(p) : p \in {<<"x">>, <<"x", "f">>, <<"x", "f", "val">>} }
    \cup { ExFieldAccessPredicate(p, amount) :
              p \in {<<"x", "f">>, <<"x", "f", "val">>},
              amount \in {"Read", "Write"} }
    \cup { ExPredicateAccessPredicate(p, amount) :
              p \in {<<"x">>, <<"x", "f">>}, amount \in {"Read", "Write"} }

ExprBinOps == { ExBinOp(l, r) : l \in ExprAtoms, r \in ExprAtoms }

Exprs ==
    ExprAtoms \cup ExprBinOps
    \cup { ExUnfolding(p, body, amount) :
              p \in {<<"x">>, <<"x", "f">>},
              body \in ExprAtoms \cup ExprBinOps,
              amount \in {"Read", "Write"} }

\* a set of permissions, or the panic of the computation
PermsOk(S) == [res |-> S, panic |-> FALSE]

PermsPanic == [res |-> {}, panic |-> TRUE]

PermsUnion(l, r) ==
    IF l.panic \/ r.panic THEN PermsPanic ELSE PermsOk(l.res \cup r.res)

PermsDifference(l, right) ==
    IF l.panic THEN PermsPanic
    ELSE LET d == perm_difference(l.res, right)
         IN  IF d.panic THEN PermsPanic ELSE PermsOk(d.res)

\* vir::Expr::get_permissions
RECURSIVE expr_get_permissions(_)
expr_get_permissions(e) ==
    CASE e.tag \in {"Const", "Place"} -> PermsOk({})
      [] e.tag = "Unfolding" ->
            LET places_in_pred ==
                    { init_perm_amount(perm, e.amount) :
                        perm \in places_in_pred_of(e.place, None) }
            IN  PermsDifference(expr_get_permissions(e.body), places_in_pred)
      [] e.tag = "BinOp" ->
            PermsUnion(expr_get_permissions(e.left),
                       expr_get_permissions(e.right))
      [] e.tag = "PredicateAccessPredicate" ->
            PermsOk({Pred(e.place, e.amount)})
      [] e.tag = "FieldAccessPredicate" ->
            PermsOk({Acc(e.place, e.amount)})

\* RequiredPermissionsGetter for vir::Expr
RECURSIVE expr_get_required_permissions(_)
expr_get_required_permissions(e) ==
    CASE e.tag = "Const" -> PermsOk({})
      [] e.tag = "Unfolding" ->
            LET places_in_pred ==
                    update_perm_amount_all(places_in_pred_of(e.place, None),
                                           e.amount)
                req_places ==
                    PermsDifference(expr_get_required_permissions(e.body),
                                    places_in_pred)
            IN  PermsUnion(req_places, PermsOk({Pred(e.place, e.amount)}))
      [] e.tag = "PredicateAccessPredicate" ->
            PermsOk({Pred(e.place, "Read"), Acc(e.place, "Read")})
      [] e.tag = "FieldAccessPredicate" ->
            PermsOk(place_get_required_permissions(e.place))
      [] e.tag = "BinOp" ->
            PermsUnion(expr_get_required_permissions(e.left),
                       expr_get_required_permissions(e.right))
      [] e.tag = "Place" -> PermsOk(place_get_required_permissions(e.place))

InitExpr ==
    /\ a = NewState
    /\ b = NewState
    /\ phase = "expr"
    /\ last = NoLast
    /\ steps = 0
    /\ debug_assertions = TRUE
    /\ \E e \in Exprs :
          pf = [expr |-> e, perms |-> PermsOk({}), required |-> PermsOk({}),
                done |-> FALSE]

\* both sets are computed for the expression
ComputePermissions ==
    /\ phase = "expr" /\ ~pf.done
    /\ pf' = [pf EXCEPT !.perms = expr_get_permissions(pf.expr),
                        !.required = expr_get_required_permissions(pf.expr),
                        !.done = TRUE]
    /\ UNCHANGED <<a, b, phase, last, steps, debug_assertions>>

NextExpr == ComputePermissions

SpecExpr == InitExpr /\ [][NextExpr]_vars

\* C23: for every expression e, every permission (place and amount) of
\* e.get_permissions() is a permission of e.get_required_permissions().
C23_Original ==
    (phase = "expr" /\ pf.done /\ ~pf.perms.panic /\ ~pf.required.panic) =>
        pf.perms.res \subseteq pf.required.res

(***************************************************************************)
(* Expressions with variables (vir/ast/expr.rs): locals, constants, field  *)
(* projections, sequence indexing, binary operations, field access         *)
(* predicates and quantifiers, and their unification.                      *)
(***************************************************************************)
VLocal(name) == [tag |-> "Local", name |-> name]

VConst(value) == [tag |-> "Const", value |-> value]

VField(base, field) == [tag |-> "Field", base |-> base, field |-> field]

VSeqIndex(seq, index) == [tag |-> "SeqIndex", seq |-> seq, index |-> index]

VBinOp(op, left, right) ==
    [tag |-> "BinOp", op |-> op, left |-> left, right |-> right]

VFieldAccessPredicate(place, perm) ==
    [tag |-> "FieldAccessPredicate", place |-> place, perm |-> perm]

VForAll(bound_vars, body) ==
    [tag |-> "ForAll", vars |-> bound_vars, body |-> body]

\* HashMap::extend: the entries of more replace those of m
MapExtend(m, more) ==
    [v \in (DOMAIN m) \cup (DOMAIN more) |->
        IF v \in DOMAIN more THEN more[v] ELSE m[v]]

UnifyOk(m) == [res |-> "Ok", m |-> m]

UnifyErr(e) == [res |-> e, m |-> EmptyMap]

\* the arm of do_unify for a free variable of the subject that keeps the
\* first binding of the variable whatever the target is
bind_free_var_first(lv, target, orig_mapping, vars_mapping) ==
    IF lv \notin DOMAIN vars_mapping
    THEN UnifyOk(MapPut(vars_mapping, lv, target))
    ELSE UnifyOk(vars_mapping)

\* the arm of do_unify for a free variable of the subject
bind_free_var(lv, target, orig_mapping, vars_mapping) ==
    IF lv \notin DOMAIN vars_mapping
    THEN UnifyOk(MapPut(vars_mapping, lv, target))
    ELSE IF vars_mapping[lv] = target
    THEN IF lv \in DOMAIN orig_mapping
         THEN IF vars_mapping[lv] = orig_mapping[lv]
              THEN UnifyOk(vars_mapping)
              ELSE UnifyErr("Conflict")
         ELSE UnifyOk(vars_mapping)
    ELSE UnifyErr("Conflict")

\* the end of the ForAll arm of do_unify: the bound variables of the
\* subject are taken out of the mapping
unbind_forall_vars(lvars, vars_mapping) ==
    LET bound == {lvars[i] : i \in 1..Len(lvars)} \cap DOMAIN vars_mapping
    IN  IF \E lv \in bound : vars_mapping[lv].tag # "Local"
        THEN UnifyErr("Unmatched")
        ELSE IF \E lv, other \in bound :
                   lv # other /\ vars_mapping[lv] = vars_mapping[other]
        THEN UnifyErr("Unmatched")
        ELSE UnifyOk([v \in (DOMAIN vars_mapping) \ bound |-> vars_mapping[v]])

RECURSIVE do_unify(_, _, _, _, _, _)
do_unify(subject, target, free_vars, orig_mapping, vars_mapping, check_perms) ==
    LET both(tag) == subject.tag = tag /\ target.tag = tag
        \* the second sub-expression is unified when the first one was
        then(first, s2, t2, fv) ==
            IF first.res # "Ok" THEN first
            ELSE do_unify(s2, t2, fv, orig_mapping, first.m, check_perms)
    IN  CASE subject.tag = "Local" /\ subject.name \in free_vars ->
                bind_free_var(subject.name, target, orig_mapping, vars_mapping)
          [] both("Local") /\ subject.name \notin free_vars ->
                IF subject.name = target.name THEN UnifyOk(vars_mapping)
                ELSE UnifyErr("Unmatched")
          [] both("Field") /\ subject.field = target.field ->
                do_unify(subject.base, target.base, free_vars, orig_mapping,
                         vars_mapping, check_perms)
          [] both("Const") ->
                IF subject.value = target.value THEN UnifyOk(vars_mapping)
                ELSE UnifyErr("Unmatched")
          [] both("FieldAccessPredicate")
             /\ (~check_perms \/ subject.perm = target.perm) ->
                do_unify(subject.place, target.place, free_vars, orig_mapping,
                         vars_mapping, check_perms)
          [] both("BinOp") /\ subject.op = target.op ->
                then(do_unify(subject.left, target.left, free_vars,
                              orig_mapping, vars_mapping, check_perms),
                     subject.right, target.right, free_vars)
          [] both("ForAll") /\ Len(subject.vars) = Len(target.vars) ->
                LET lvars == {subject.vars[i] : i \in 1..Len(subject.vars)}
                    new_free_vars == free_vars \cup lvars
                    unbind(body) ==
                        IF body.res # "Ok" THEN body
                        ELSE unbind_forall_vars(subject.vars, body.m)
                IN  IF Cardinality(new_free_vars) #
                          Cardinality(free_vars) + Len(subject.vars)
                    THEN UnifyErr("Panic")
                    ELSE unbind(do_unify(subject.body, target.body,
                                         new_free_vars, orig_mapping,
                                         vars_mapping, check_perms))
          [] both("SeqIndex") ->
                then(do_unify(subject.seq, target.seq, free_vars,
                              orig_mapping, vars_mapping, check_perms),
                     subject.index, target.index, free_vars)
          [] OTHER -> UnifyErr("Unmatched")

\* unify: the result and the caller's mapping afterwards
unify(subject, target, free_vars, vars_mapping, check_perms) ==
    LET done(r) ==
            IF r.res = "Ok"
            THEN [res |-> "Success", m |-> MapExtend(vars_mapping, r.m)]
            ELSE [res |-> r.res, m |-> vars_mapping]
    IN  done(do_unify(subject, target, free_vars, vars_mapping, EmptyMap,
                      check_perms))

(***************************************************************************)
(* SpecUnify: unify is called on a subject and a target with the free      *)
(* variables fv1 and fv2 and a mapping that may hold a binding already.    *)
(***************************************************************************)
UnifyFreeVars == {"fv1", "fv2"}

SubjectLeaves == {VLocal("fv1"), VLocal("fv2"), VLocal("x"), VConst(1)}

TargetLeaves == {VLocal("a"), VLocal("b"), VLocal("x"), VConst(1)}

\* l + r, (l + r) * m and forall v :: l + r over the leaves
TermsOver(leaves, v) ==
    leaves
    \cup { VBinOp("Add", l, r) : l \in leaves, r \in leaves }
    \cup { VBinOp("Mul", VBinOp("Add", l, r), m) :
              l \in leaves, r \in leaves, m \in leaves }
    \cup { VForAll(<<v>>, VBinOp("Add", l, r)) :
              l \in leaves \cup {VLocal(v)}, r \in leaves \cup {VLocal(v)} }

UnifySubjects == TermsOver(SubjectLeaves, "i")

UnifyTargets == TermsOver(TargetLeaves, "j")

\* the mapping the caller passes
UnifyMappings ==
    { EmptyMap, MapPut(EmptyMap, "fv1", VLocal("a")),
      MapPut(EmptyMap, "fv2", VBinOp("Add", VLocal("a"), VLocal("b"))) }

InitUnify ==
    /\ a = NewState
    /\ b = NewState
    /\ phase = "unify"
    /\ last = NoLast
    /\ steps = 0
    /\ debug_assertions = TRUE
    /\ \E subject \in UnifySubjects, target \in UnifyTargets,
          mapping \in UnifyMappings :
          pf = [subject |-> subject, target |-> target, mapping |-> mapping,
                res |-> "none", out |-> mapping, done |-> FALSE]

CallUnify ==
    /\ phase = "unify" /\ ~pf.done
    /\ \E r \in {unify(pf.subject, pf.target, UnifyFreeVars, pf.mapping,
                        FALSE)} :
          pf' = [pf EXCEPT !.res = r.res, !.out = r.m, !.done = TRUE]
    /\ UNCHANGED <<a, b, phase, last, steps, debug_assertions>>

NextUnify == CallUnify

SpecUnify == InitUnify /\ [][NextUnify]_vars

\* subject and target have the same structure outside the positions of the
\* free variables of the subject
RECURSIVE SameShape(_, _, _)
SameShape(subject, target, free_vars) ==
    CASE subject.tag = "Local" /\ subject.name \in free_vars -> TRUE
      [] subject.tag # target.tag -> FALSE
      [] subject.tag = "Local" -> subject.name = target.name
      [] subject.tag = "Const" -> subject.value = target.value
      [] subject.tag = "Field" ->
            /\ subject.field = target.field
            /\ SameShape(subject.base, target.base, free_vars)
      [] subject.tag = "SeqIndex" ->
            /\ SameShape(subject.seq, target.seq, free_vars)
            /\ SameShape(subject.index, target.index, free_vars)
      [] subject.tag = "BinOp" ->
            /\ subject.op = target.op
            /\ SameShape(subject.left, target.left, free_vars)
            /\ SameShape(subject.right, target.right, free_vars)
      [] subject.tag = "ForAll" ->
            /\ Len(subject.vars) = Len(target.vars)
            /\ SameShape(subject.body, target.body,
                         free_vars \cup {subject.vars[i] :
                                            i \in 1..Len(subject.vars)})
      [] OTHER -> FALSE

\* the pairs of a free variable of the subject and the sub-expression of
\* the target at the same position
RECURSIVE Aligned(_, _, _)
Aligned(subject, target, free_vars) ==
    CASE subject.tag = "Local" /\ subject.name \in free_vars ->
            {<<subject.name, target>>}
      [] subject.tag # target.tag -> {}
      [] subject.tag = "Field" ->
            Aligned(subject.base, target.base, free_vars)
      [] subject.tag = "SeqIndex" ->
            Aligned(subject.seq, target.seq, free_vars)
            \cup Aligned(subject.index, target.index, free_vars)
      [] subject.tag = "BinOp" ->
            Aligned(subject.left, target.left, free_vars)
            \cup Aligned(subject.right, target.right, free_vars)
      [] subject.tag = "ForAll" ->
            Aligned(subject.body, target.body,
                    free_vars \cup {subject.vars[i] :
                                       i \in 1..Len(subject.vars)})
      [] OTHER -> {}

\* one variable of the subject would have to be bound to two different
\* sub-expressions of the target
TwoBindings ==
    /\ SameShape(pf.subject, pf.target, UnifyFreeVars)
    /\ \E p, q \in Aligned(pf.subject, pf.target, UnifyFreeVars) :
          p[1] = q[1] /\ p[2] # q[2]

\* C26: unify returns Conflict when the same variable would have to be
\* bound to two different sub-expressions of the target, and whenever
\* unify does not return Success the mapping of the caller is exactly the
\* one it was before the call.
C26_ConflictAndFrame ==
    (phase = "unify" /\ pf.done) =>
        /\ TwoBindings => pf.res = "Conflict"
        /\ pf.res # "Success" => pf.out = pf.mapping

\* the test of the source with a mapping that is not empty: fv1 would be
\* bound to a and to b, and the caller's binding of fv2 is untouched
C26_Witness ==
    /\ phase = "unify" /\ pf.done /\ TwoBindings
    /\ pf.subject = VBinOp("Mul", VBinOp("Add", VLocal("fv1"), VLocal("x")),
                           VLocal("fv1"))
    /\ pf.target = VBinOp("Mul", VBinOp("Add", VLocal("a"), VLocal("x")),
                          VLocal("b"))
    /\ pf.mapping # EmptyMap
    /\ pf.res = "Conflict" /\ pf.out = pf.mapping

\* the expression with its variables replaced as the mapping says, the
\* variables bound by a quantifier of the expression excepted
RECURSIVE SubstFree(_, _)
SubstFree(e, m) ==
    CASE e.tag = "Local" -> IF e.name \in DOMAIN m THEN m[e.name] ELSE e
      [] e.tag = "Const" -> e
      [] e.tag = "Field" -> VField(SubstFree(e.base, m), e.field)
      [] e.tag = "SeqIndex" ->
            VSeqIndex(SubstFree(e.seq, m), SubstFree(e.index, m))
      [] e.tag = "BinOp" ->
            VBinOp(e.op, SubstFree(e.left, m), SubstFree(e.right, m))
      [] e.tag = "FieldAccessPredicate" ->
            VFieldAccessPredicate(SubstFree(e.place, m), e.perm)
      [] e.tag = "ForAll" ->
            LET bound == {e.vars[i] : i \in 1..Len(e.vars)}
            IN  VForAll(e.vars,
                        SubstFree(e.body,
                                  [v \in (DOMAIN m) \ bound |-> m[v]]))

\* the two expressions are equal when the variables bound in the first
\* one are renamed as ren says; with check_perms false the amounts of the
\* access predicates are not compared
RECURSIVE AlphaEq(_, _, _, _)
AlphaEq(e1, e2, ren, check_perms) ==
    CASE e1.tag # e2.tag -> FALSE
      [] e1.tag = "Local" ->
            IF e1.name \in DOMAIN ren THEN e2.name = ren[e1.name]
            ELSE /\ e1.name = e2.name
                 /\ \A v \in DOMAIN ren : ren[v] # e2.name
      [] e1.tag = "Const" -> e1.value = e2.value
      [] e1.tag = "Field" ->
            e1.field = e2.field /\ AlphaEq(e1.base, e2.base, ren, check_perms)
      [] e1.tag = "SeqIndex" ->
            /\ AlphaEq(e1.seq, e2.seq, ren, check_perms)
            /\ AlphaEq(e1.index, e2.index, ren, check_perms)
      [] e1.tag = "BinOp" ->
            /\ e1.op = e2.op
            /\ AlphaEq(e1.left, e2.left, ren, check_perms)
            /\ AlphaEq(e1.right, e2.right, ren, check_perms)
      [] e1.tag = "FieldAccessPredicate" ->
            /\ ~check_perms \/ e1.perm = e2.perm
            /\ AlphaEq(e1.place, e2.place, ren, check_perms)
      [] e1.tag = "ForAll" ->
            LET lvars == {e1.vars[i] : i \in 1..Len(e1.vars)}
                rvars == {e2.vars[i] : i \in 1..Len(e2.vars)}
                kept == [v \in (DOMAIN ren) \ lvars |-> ren[v]]
            IN  /\ Len(e1.vars) = Len(e2.vars)
                /\ \E pi \in [lvars -> rvars] :
                      /\ \A v, w \in lvars : pi[v] = pi[w] => v = w
                      /\ AlphaEq(e1.body, e2.body, MapExtend(kept, pi),
                                 check_perms)

\* the free variables that occur in the expression outside its quantifiers
RECURSIVE FreeVarsIn(_, _)
FreeVarsIn(e, free_vars) ==
    CASE e.tag = "Local" -> {e.name} \cap free_vars
      [] e.tag = "Const" -> {}
      [] e.tag = "Field" -> FreeVarsIn(e.base, free_vars)
      [] e.tag = "SeqIndex" ->
            FreeVarsIn(e.seq, free_vars) \cup FreeVarsIn(e.index, free_vars)
      [] e.tag = "BinOp" ->
            FreeVarsIn(e.left, free_vars) \cup FreeVarsIn(e.right, free_vars)
      [] e.tag = "FieldAccessPredicate" -> FreeVarsIn(e.place, free_vars)
      [] e.tag = "ForAll" ->
            FreeVarsIn(e.body,
                       free_vars \ {e.vars[i] : i \in 1..Len(e.vars)})

\* C27: when unify returns Success, the mapping binds every free variable
\* that occurs in the subject to the sub-expression of the target it is
\* aligned with, the subject with the mapping substituted is the target up
\* to the names of the variables bound by quantifiers, and the bindings
\* the mapping held before the call are kept.
C27_Original ==
    (phase = "unify" /\ pf.done /\ pf.res = "Success") =>
        /\ \A v \in FreeVarsIn(pf.subject, UnifyFreeVars) :
              /\ v \in DOMAIN pf.out
              /\ <<v, pf.out[v]>> \in
                    Aligned(pf.subject, pf.target, UnifyFreeVars)
        /\ AlphaEq(SubstFree(pf.subject, pf.out), pf.target, EmptyMap, FALSE)
        /\ \A v \in DOMAIN pf.mapping :
              v \in DOMAIN pf.out /\ pf.out[v] = pf.mapping[v]

(***************************************************************************)
(* SpecSimilar: is_similar_to of two quantified resource accesses          *)
(*   forall vars :: l < r ==> acc(base.arr[index].v, perm)                 *)
(* over the variables i and j, which a quantifier may bind, and k.         *)
(***************************************************************************)
\* base.arr[index].v
ArrayPlace(index) ==
    VField(VSeqIndex(VField(VLocal("base"), "arr"), index), "v")

QuantifiedResourceAccess(bound_vars, triggers, cond, place, perm) ==
    [vars |-> bound_vars, triggers |-> triggers, cond |-> cond,
     resource |-> VFieldAccessPredicate(place, perm)]

\* QuantifiedResourceAccess::to_forall_expression
to_forall_expression(quant) ==
    LET body == VBinOp("Implies", quant.cond, quant.resource)
    IN  IF quant.vars = <<>> THEN body ELSE VForAll(quant.vars, body)

\* QuantifiedResourceAccess::is_similar_to
is_similar_to(quant, other, check_perm) ==
    unify(to_forall_expression(quant), to_forall_expression(other), {},
          EmptyMap, check_perm).res = "Success"

IndexLeaves == {VLocal("i"), VLocal("j"), VLocal("k")}

\* the names of the locals of an index
IndexNames(index) ==
    IF index.tag = "Local" THEN {index.name}
    ELSE {index.left.name, index.right.name}

\* the lists of bound variables: every bound variable occurs in the place
BoundVarLists(index) ==
    { vs \in {<<>>, <<"i">>, <<"j">>, <<"i", "j">>, <<"j", "i">>} :
        \A n \in 1..Len(vs) : vs[n] \in IndexNames(index) }

SimilarQuants(perms) ==
    { QuantifiedResourceAccess(vs, <<>>, VBinOp("Lt", l, r),
                               ArrayPlace(index), perm) :
        vs \in {<<>>, <<"i">>, <<"j">>, <<"i", "j">>, <<"j", "i">>},
        l \in IndexLeaves, r \in {VLocal("j"), VLocal("k")},
        index \in IndexLeaves
                  \cup {VBinOp("Add", x, y) : x \in IndexLeaves, y \in IndexLeaves},
        perm \in perms }

WellFormedQuant(quant) ==
    quant.vars \in BoundVarLists(quant.resource.place.base.index)

InitSimilar ==
    /\ a = NewState
    /\ b = NewState
    /\ phase = "similar"
    /\ last = NoLast
    /\ steps = 0
    /\ debug_assertions = TRUE
    /\ \E quant \in SimilarQuants({"Write"}),
          other \in SimilarQuants({"Read", "Write"}), check_perm \in BOOLEAN :
          /\ WellFormedQuant(quant) /\ WellFormedQuant(other)
          /\ pf = [quant |-> quant, other |-> other,
                   check_perm |-> check_perm, similar |-> FALSE,
                   done |-> FALSE]

CallIsSimilarTo ==
    /\ phase = "similar" /\ ~pf.done
    /\ pf' = [pf EXCEPT !.similar = is_similar_to(pf.quant, pf.other,
                                                  pf.check_perm),
                        !.done = TRUE]
    /\ UNCHANGED <<a, b, phase, last, steps, debug_assertions>>

NextSimilar == CallIsSimilarTo

SpecSimilar == InitSimilar /\ [][NextSimilar]_vars

\* C28: is_similar_to holds for two quantified resource accesses exactly
\* when they are the same up to a consistent renaming of their bound
\* variables, whatever the order in which the variables are declared (the
\* amounts being compared when check_perm is set); it is false when no
\* single consistent renaming makes them equal.
C28_Original ==
    (phase = "similar" /\ pf.done) =>
        (pf.similar <=> AlphaEq(to_forall_expression(pf.quant),
                                to_forall_expression(pf.other), EmptyMap,
                                pf.check_perm))

(***************************************************************************)
(* SpecInstantiate: try_instantiate of a quantified resource access with   *)
(* bound variables against a requested place (vir/ast/expr.rs).            *)
(***************************************************************************)
\* Expr::depth
RECURSIVE depth(_)
depth(e) ==
    LET max(x, y) == IF x >= y THEN x ELSE y
    IN  CASE e.tag \in {"Local", "Const"} -> 1
          [] e.tag = "Field" -> 1 + depth(e.base)
          [] e.tag = "FieldAccessPredicate" -> 1 + depth(e.place)
          [] e.tag = "BinOp" -> 1 + max(depth(e.left), depth(e.right))
          [] e.tag = "ForAll" -> 1 + depth(e.body)
          [] e.tag = "SeqIndex" -> 1 + max(depth(e.seq), depth(e.index))

\* no expression: Option::None
NoExpr == [tag |-> "None"]

\* Expr::get_parent of a place
expr_get_parent(e) ==
    CASE e.tag = "Local" -> NoExpr
      [] e.tag = "Field" /\ e.base.tag = "SeqIndex" -> e.base.seq
      [] e.tag = "Field" -> e.base

\* Expr::has_prefix of two places
RECURSIVE expr_has_prefix(_, _)
expr_has_prefix(e, other) ==
    IF e = other THEN TRUE
    ELSE LET then(parent) ==
                 IF parent = NoExpr THEN FALSE
                 ELSE expr_has_prefix(parent, other)
         IN  then(expr_get_parent(e))

\* Expr::subst with the mapping of the variables as Expr::Local keys
RECURSIVE subst(_, _)
subst(e, m) ==
    CASE e.tag = "Local" -> IF e.name \in DOMAIN m THEN m[e.name] ELSE e
      [] e.tag = "Const" -> e
      [] e.tag = "Field" -> VField(subst(e.base, m), e.field)
      [] e.tag = "SeqIndex" -> VSeqIndex(subst(e.seq, m), subst(e.index, m))
      [] e.tag = "BinOp" -> VBinOp(e.op, subst(e.left, m), subst(e.right, m))
      [] e.tag = "FieldAccessPredicate" ->
            VFieldAccessPredicate(subst(e.place, m), e.perm)

\* forall_instantiation::inner, the loop over the elements of the trigger:
\* Ok or Err, the elements matched and the mapping
RECURSIVE match_trigger(_, _, _, _, _, _, _)
match_trigger(target, free_vars, trigger, k, matched, vars_mapping, check_perms) ==
    IF k > Len(trigger)
    THEN [ok |-> TRUE, matched |-> matched, m |-> vars_mapping]
    ELSE IF matched[k] \/ depth(trigger[k]) > depth(target)
    THEN match_trigger(target, free_vars, trigger, k + 1, matched,
                       vars_mapping, check_perms)
    ELSE LET then(u) ==
                 CASE u.res = "Success" ->
                        match_trigger(target, free_vars, trigger, k + 1,
                                      [matched EXCEPT ![k] = TRUE], u.m,
                                      check_perms)
                   [] u.res = "Unmatched" ->
                        match_trigger(target, free_vars, trigger, k + 1,
                                      matched, vars_mapping, check_perms)
                   [] OTHER ->
                        [ok |-> FALSE, matched |-> matched, m |-> vars_mapping]
         IN  then(unify(trigger[k], target, free_vars, vars_mapping,
                        check_perms))

\* forall_instantiation::inner
RECURSIVE inner(_, _, _, _, _, _)
inner(target, free_vars, trigger, matched_trigger, vars_mapping, check_perms) ==
    LET all(r) == \A k \in 1..Len(trigger) : r.matched[k]
        \* the second sub-expression is searched when the first one gave Ok
        second(r, e) ==
            IF ~r.ok THEN r
            ELSE inner(e, free_vars, trigger, r.matched, r.m, check_perms)
        descend(r) ==
            IF ~r.ok \/ all(r) THEN r
            ELSE CASE target.tag \in {"Local", "Const"} -> r
                   [] target.tag = "Field" ->
                        inner(target.base, free_vars, trigger, r.matched, r.m,
                              check_perms)
                   [] target.tag = "FieldAccessPredicate" ->
                        inner(target.place, free_vars, trigger, r.matched,
                              r.m, check_perms)
                   [] target.tag = "BinOp" ->
                        second(inner(target.left, free_vars, trigger,
                                     r.matched, r.m, check_perms),
                               target.right)
                   [] target.tag = "SeqIndex" ->
                        second(inner(target.seq, free_vars, trigger,
                                     r.matched, r.m, check_perms),
                               target.index)
    IN  descend(match_trigger(target, free_vars, trigger, 1, matched_trigger,
                              vars_mapping, check_perms))

\* forall_instantiation: None, or the mapping and the substituted body of
\* the first trigger whose elements are all matched
RECURSIVE forall_instantiation(_, _, _, _, _)
forall_instantiation(target, free_vars, triggers, body, check_perms) ==
    IF triggers = <<>> THEN [some |-> FALSE]
    ELSE LET trigger == Head(triggers)
             then(r) ==
                 IF r.ok /\ \A k \in 1..Len(trigger) : r.matched[k]
                 THEN [some |-> TRUE, vars_mapping |-> r.m,
                       body |-> subst(body, r.m)]
                 ELSE forall_instantiation(target, free_vars, Tail(triggers),
                                           body, check_perms)
         IN  then(inner(target, free_vars, trigger,
                        [k \in 1..Len(trigger) |-> FALSE], EmptyMap,
                        check_perms))

\* QuantifiedResourceAccess::try_instantiate_non_empty_vars of a field
\* access: None, the instantiation and its match type, or the panic of an
\* assertion
try_instantiate_non_empty_vars(quant, perm_place) ==
    LET free_vars == {quant.vars[n] : n \in 1..Len(quant.vars)}
        forall_body == VBinOp("Implies", quant.cond, quant.resource)
        result(fi) ==
            IF ~fi.some THEN [res |-> "None"]
            ELSE LET field_place == fi.body.right.place
                     remaining_vars ==
                         SelectSeq(quant.vars,
                                   LAMBDA v : v \notin DOMAIN fi.vars_mapping)
                     instantiated ==
                         [vars |-> remaining_vars,
                          triggers |->
                              IF remaining_vars = <<>> THEN <<>>
                              ELSE [n \in 1..Len(quant.triggers) |->
                                      [k \in 1..Len(quant.triggers[n]) |->
                                         subst(quant.triggers[n][k],
                                               fi.vars_mapping)]],
                          cond |-> fi.body.left,
                          resource |-> fi.body.right]
                 IN  IF ~expr_has_prefix(perm_place, field_place)
                     THEN [res |-> "Panic"]
                     ELSE [res |-> "Some",
                           match_type |->
                               IF field_place = perm_place
                               THEN "PerfectFieldAccMatch"
                               ELSE "PrefixFieldAccMatch",
                           instantiated |-> instantiated]
    IN  result(forall_instantiation(perm_place, free_vars, quant.triggers,
                                    forall_body, FALSE))

\* the indices of the requested places
InstIndices ==
    {VLocal("k"), VLocal("m"), VConst(5), VConst(7),
     VBinOp("Add", VLocal("k"), VLocal("m")),
     VBinOp("Add", VLocal("k"), VConst(5)),
     ArrayPlace(VLocal("k")), ArrayPlace(VConst(5))}

\* the requested places
InstPlaces ==
    {VField(VLocal("base"), "arr"), VField(VLocal("base"), "f")}
    \cup {ArrayPlace(index) : index \in InstIndices}
    \cup {VField(ArrayPlace(index), "w") : index \in InstIndices}
    \cup {VField(VSeqIndex(VField(VLocal("base"), "arr"), index), "u") :
             index \in InstIndices}
    \cup {VField(VSeqIndex(VField(VLocal("base"), "oth"), index), "v") :
             index \in InstIndices}

\* the held quantified accesses: every bound variable occurs in the place,
\* and the trigger is the place
InstQuants ==
    { QuantifiedResourceAccess(vs, <<<<ArrayPlace(index)>>>>,
                               VBinOp("Lt", VLocal("i"), r),
                               ArrayPlace(index), perm) :
        vs \in {<<"i">>, <<"i", "j">>, <<"j", "i">>},
        r \in {VLocal("j"), VLocal("n")},
        index \in {VLocal("i"), VBinOp("Add", VLocal("i"), VLocal("j"))},
        perm \in {"Read", "Write"} }

InitInstantiate ==
    /\ a = NewState
    /\ b = NewState
    /\ phase = "instantiate"
    /\ last = NoLast
    /\ steps = 0
    /\ debug_assertions \in BOOLEAN
    /\ \E quant \in InstQuants, perm_place \in InstPlaces :
          /\ WellFormedQuant(quant)
          /\ (Len(quant.vars) = 2 => quant.resource.place.base.index.tag = "BinOp")
          /\ pf = [quant |-> quant, perm_place |-> perm_place,
                   result |-> [res |-> "None"], done |-> FALSE]

CallTryInstantiate ==
    /\ phase = "instantiate"
    /\ ~pf.done
    /\ \E r \in {try_instantiate_non_empty_vars(pf.quant, pf.perm_place)} :
          pf' = [pf EXCEPT !.result = r, !.done = TRUE]
    /\ UNCHANGED <<a, b, phase, last, steps, debug_assertions>>

NextInstantiate == CallTryInstantiate

SpecInstantiate == InitInstantiate /\ [][NextInstantiate]_vars

\* the proper prefixes of a place
RECURSIVE ProperPrefixes(_)
ProperPrefixes(e) ==
    LET then(parent) ==
            IF parent = NoExpr THEN {}
            ELSE {parent} \cup ProperPrefixes(parent)
    IN  then(expr_get_parent(e))

\* the unification of the resource place of the quantifier with a place
InstUnify(quant, place) ==
    unify(quant.resource.place, place,
          {quant.vars[n] : n \in 1..Len(quant.vars)}, EmptyMap, FALSE)

\* C24: try_instantiate returns a perfect match, with every bound variable
\* instantiated and the condition instantiated by the same substitution,
\* exactly when the requested place equals the instantiated resource place;
\* a prefix match, whose place is a proper prefix of the request, when the
\* request extends the instantiated place; and nothing when the request
\* does not unify with the resource.
C24_Original ==
    (phase = "instantiate" /\ pf.done) =>
        LET u == InstUnify(pf.quant, pf.perm_place)
            perfect == u.res = "Success"
            prefix == \E p \in ProperPrefixes(pf.perm_place) :
                          InstUnify(pf.quant, p).res = "Success"
            r == pf.result
        IN  /\ perfect <=> (r.res = "Some" /\ r.match_type = "PerfectFieldAccMatch")
            /\ perfect =>
                  /\ r.instantiated.vars = <<>>
                  /\ r.instantiated.resource.place = pf.perm_place
                  /\ r.instantiated.cond = subst(pf.quant.cond, u.m)
            /\ (~perfect /\ prefix) =>
                  /\ r.res = "Some"
                  /\ r.match_type = "PrefixFieldAccMatch"
                  /\ r.instantiated.resource.place
                        \in ProperPrefixes(pf.perm_place)
            /\ (~perfect /\ ~prefix) => r.res = "None"

(***************************************************************************)
(* SpecInstances: one branch context over the locals x and z that holds    *)
(* quantified field accesses and quantified predicates without bound       *)
(* variables, and on which permissions are obtained.                       *)
(***************************************************************************)
\* the plain permissions a statement may inhale
InstStmtPerms ==
    { Acc(p, amount) : p \in {<<"x", "f">>, <<"x", "g">>},
                       amount \in {"Read", "Write"} }

\* the quantified resources a statement may inhale
InstQuantPerms ==
    { Acc(p, amount) : p \in {<<"x", "f">>, <<"x", "f", "val">>, <<"z">>},
                       amount \in {"Read", "Write"} }
    \cup { Pred(p, amount) : p \in {<<"x", "f">>, <<"z">>},
                             amount \in {"Read", "Write"} }

\* the permissions a statement may require
InstReqs ==
    { Acc(p, amount) : p \in {<<"x", "f">>, <<"x", "f", "val">>, <<"z", "val">>},
                       amount \in {"Read", "Write"} }
    \cup { Pred(p, amount) : p \in {<<"x", "f">>, <<"z">>},
                             amount \in {"Read", "Write"} }

NextInstances ==
    \/ \E perm \in InstStmtPerms : Inhale("a", perm)
    \/ \E quant \in InstQuantPerms : InhaleQuant("a", quant)
    \/ \E req \in InstReqs, ord \in HashOrders :
          obtain_permissions("a", req, ord)

SpecInstances == InitFold /\ [][NextInstances]_vars

\* the held quantified resources whose instantiation at the place of the
\* request has the match type
InstancesOf(s, req, match_type) ==
    {q \in s.quant : try_instantiate(q, req.place) = match_type}

\* the match types in the order of the priority
MatchPriority ==
    <<"PerfectFieldAccMatch", "PerfectPredAccMatch", "PrefixPredAccMatch",
      "PrefixFieldAccMatch">>

\* the instance alone satisfies the request
HandleOne(s, req, quant, ord) ==
    handle_quantified_instances_results(s, req, <<quant>>, ord, MaxFuel)

\* the request, made in the state, goes to the quantified resources: its
\* prefixes are held, it is not held, and no unfold or fold applies to it
ReachesQuantified(s, req) ==
    /\ Ok(s)
    /\ \A n \in 1..Len(all_proper_prefixes(req.place)) :
          \/ is_local(all_proper_prefixes(req.place)[n])
          \/ contains_perm(s, Acc(all_proper_prefixes(req.place)[n],
                                  req.amount)) = "Yes"
    /\ contains_perm(s, req) # "Yes"
    /\ ~(is_acc(req) /\ is_local(req.place))
    /\ ~\E p \in pred_places(s) : has_proper_prefix(req.place, p)
    /\ is_pred(req) =>
          /\ typed_ref_name(req.place) # ""
          /\ ~\E p \in acc_places(s) : has_proper_prefix(p, req.place)
          /\ \/ is_abstract(typed_ref_name(req.place))
             \/ places_in_pred_of(req.place, None) # {}

\* the first match type of the priority that has an instance satisfying
\* the request alone, 0 if there is none
FirstMatch(s, req, ord) ==
    LET good(k) == \E q \in InstancesOf(s, req, MatchPriority[k]) :
                       HandleOne(s, req, q, ord).ok
    IN  IF \E k \in 1..4 : good(k)
        THEN CHOOSE k \in 1..4 : good(k) /\ \A j \in 1..(k - 1) : ~good(j)
        ELSE 0

\* C25: when a request goes to the quantified resources, the result is the
\* one of an instance of the first match type, in the order perfect field,
\* perfect predicate, prefix predicate, prefix field, that has an instance
\* satisfying the request; the request fails when no instance satisfies
\* it; an instance that is a prefix field match never satisfies it.
C25_Original ==
    (last.op = "obtain"
     /\ ReachesQuantified(check_consistency(last.pre, debug_assertions), last.req)) =>
        LET s == check_consistency(last.pre, debug_assertions)
        IN  /\ \A q \in InstancesOf(s, last.req, "PrefixFieldAccMatch"), ord \in HashOrders :
                  ~HandleOne(s, last.req, q, ord).ok
            /\ \E ord \in HashOrders :
                  LET k == FirstMatch(s, last.req, ord)
                  IN  IF k = 0 THEN ~last.ok
                      ELSE /\ last.ok
                           /\ \E q \in InstancesOf(s, last.req, MatchPriority[k]) :
                                 /\ HandleOne(s, last.req, q, ord).ok
                                 /\ last.post = HandleOne(s, last.req, q, ord).st
                                 /\ last.actions = HandleOne(s, last.req, q, ord).actions

(***************************************************************************)
(* SpecActions: the conversion of a list of actions into statements        *)
(* (action.rs).                                                            *)
(***************************************************************************)
\* the longest list of actions
MaxActions == 3

ActQuantifiedUnfold(place, amount, variant) ==
    [kind |-> "QuantifiedUnfold", perm |-> Pred(place, amount),
     missing |-> NoPerm, variant |-> variant]

\* vir::Stmt::Unfold
VirUnfold(perm, variant) ==
    [kind |-> "Unfold", perm |-> perm, missing |-> NoPerm, variant |-> variant]

\* vir::Stmt::Fold, at the default position
VirFold(perm, variant) ==
    [kind |-> "Fold", perm |-> perm, missing |-> NoPerm, variant |-> variant]

\* vir::Stmt::comment of the text of a Drop
VirComment(perm, missing) ==
    [kind |-> "Comment", perm |-> perm, missing |-> missing, variant |-> None]

\* vir::Stmt::Assert
VirAssert ==
    [kind |-> "Assert", perm |-> NoPerm, missing |-> NoPerm, variant |-> None]

\* the panic of a conversion
VirPanic ==
    [kind |-> "panic", perm |-> NoPerm, missing |-> NoPerm, variant |-> None]

\* Action::to_stmt
to_stmt(action) ==
    CASE action.kind = "Fold" -> VirFold(action.perm, action.variant)
      [] action.kind = "Unfold" -> VirUnfold(action.perm, action.variant)
      [] action.kind = "Drop" -> VirComment(action.perm, action.missing)
      [] action.kind = "Assertion" -> VirAssert
      [] action.kind = "TemporaryUnfold" -> VirPanic
      [] action.kind = "QuantifiedUnfold" -> VirPanic

\* the loop of actions_to_stmts
RECURSIVE actions_to_stmts_loop(_, _, _)
actions_to_stmts_loop(actions, perms, to_fold_back) ==
    IF actions = <<>>
    THEN [panic |-> FALSE, perms |-> perms, to_fold_back |-> to_fold_back]
    ELSE LET action == Head(actions)
         IN  IF action.kind = "TemporaryUnfold"
             THEN actions_to_stmts_loop(
                      Tail(actions),
                      Append(perms, VirUnfold(action.perm, action.variant)),
                      Append(to_fold_back, VirFold(action.perm, action.variant)))
             ELSE IF to_stmt(action) = VirPanic
             THEN [panic |-> TRUE, perms |-> <<>>, to_fold_back |-> <<>>]
             ELSE actions_to_stmts_loop(Tail(actions),
                                        Append(perms, to_stmt(action)),
                                        to_fold_back)

\* a conversion that returns the folds in the order of the unfolds
actions_to_stmts_in_order(actions) ==
    LET r == actions_to_stmts_loop(actions, <<>>, <<>>)
    IN  [panic |-> r.panic, first |-> r.perms, second |-> r.to_fold_back]

\* actions_to_stmts: the statements, and the folds to apply once the
\* statement is done
actions_to_stmts(actions) ==
    LET r == actions_to_stmts_loop(actions, <<>>, <<>>)
    IN  [panic |-> r.panic, first |-> r.perms,
         second |-> Reverse(r.to_fold_back)]

\* the actions of the lists
ActionItems ==
    { ActTemporaryUnfold(p, amount, None) :
        p \in {<<"x", "f">>, <<"z">>}, amount \in {"Read", "Write"} }
    \cup { ActUnfold(<<"x">>, "Write", None), ActFold(<<"x">>, "Write", None),
           ActTemporaryUnfold(<<"e">>, "Write", "enum_A"),
           ActDrop(Acc(<<"x", "f">>, "Read"), Acc(<<"x", "f">>, "Read")),
           ActAssertion,
           ActQuantifiedUnfold(<<"z">>, "Write", None) }

RECURSIVE ActionLists(_)
ActionLists(n) ==
    IF n = 0 THEN {<<>>}
    ELSE ActionLists(n - 1)
         \cup {Append(l, x) : l \in {m \in ActionLists(n - 1) : Len(m) = n - 1},
                              x \in ActionItems}

InitActions ==
    /\ a = NewState
    /\ b = NewState
    /\ phase = "actions"
    /\ last = NoLast
    /\ steps = 0
    /\ debug_assertions \in BOOLEAN
    /\ \E actions \in ActionLists(MaxActions) :
          pf = [actions |-> actions, done |-> FALSE,
                result |-> [panic |-> FALSE, first |-> <<>>, second |-> <<>>]]

CallActionsToStmts ==
    /\ phase = "actions"
    /\ ~pf.done
    /\ \E r \in {actions_to_stmts(pf.actions)} :
          pf' = [pf EXCEPT !.result = r, !.done = TRUE]
    /\ UNCHANGED <<a, b, phase, last, steps, debug_assertions>>

NextActions == CallActionsToStmts

SpecActions == InitActions /\ [][NextActions]_vars

\* the temporary unfolds of a list, in the order of the list
TemporaryUnfolds(actions) ==
    SelectSeq(actions, LAMBDA action : action.kind = "TemporaryUnfold")

\* every temporary unfold is an Unfold at its position in the first list,
\* and the second list is the matching folds in the reverse order
TemporaryFoldedBack(actions, result) ==
    /\ ~result.panic
    /\ Len(result.first) = Len(actions)
    /\ \A i \in 1..Len(actions) :
          actions[i].kind = "TemporaryUnfold" =>
              result.first[i] = VirUnfold(actions[i].perm, actions[i].variant)
    /\ Len(result.second) = Len(TemporaryUnfolds(actions))
    /\ \A i \in 1..Len(result.second) :
          LET u == TemporaryUnfolds(actions)[Len(result.second) + 1 - i]
          IN  result.second[i] = VirFold(u.perm, u.variant)

\* C29 as stated: actions_to_stmts turns every TemporaryUnfold of the list
\* into an Unfold at its position in the first list and one matching Fold
\* in the second list, which is in the reverse order of the unfolds.
C29_Original ==
    (phase = "actions" /\ pf.done /\ TemporaryUnfolds(pf.actions) # <<>>) =>
        TemporaryFoldedBack(pf.actions, pf.result)

\* C29: when no action of the list is a QuantifiedUnfold, actions_to_stmts
\* turns every TemporaryUnfold of the list into an Unfold at its position
\* in the first list and one matching Fold in the second list, which is in
\* the reverse order of the unfolds; with a QuantifiedUnfold in the list the
\* conversion panics.
C29_FoldedBack ==
    (phase = "actions" /\ pf.done) =>
        IF \E i \in 1..Len(pf.actions) : pf.actions[i].kind = "QuantifiedUnfold"
        THEN pf.result.panic
        ELSE TemporaryFoldedBack(pf.actions, pf.result)

\* two different temporary unfolds with another action between them were
\* converted
C29_Witness ==
    /\ phase = "actions" /\ pf.done /\ ~pf.result.panic
    /\ Len(pf.actions) = 3
    /\ pf.actions[1].kind = "TemporaryUnfold"
    /\ pf.actions[2].kind = "Assertion"
    /\ pf.actions[3].kind = "TemporaryUnfold"
    /\ pf.actions[1] # pf.actions[3]
    /\ pf.result.second = <<VirFold(pf.actions[3].perm, pf.actions[3].variant),
                            VirFold(pf.actions[1].perm, pf.actions[1].variant)>>

(***************************************************************************)
(* SpecInterp: the backward interpretation of a control-flow graph         *)
(* (mir_interpreter.rs).  A graph gives every basic block the list of the  *)
(* successors of its terminator; the interpreter's state records what was  *)
(* applied to it.                                                          *)
(***************************************************************************)
\* the basic blocks, in the order of their indices; the first is the entry
BasicBlocks == <<0, 1, 2>>

\* the most successors a terminator lists
MaxSuccessors == 2

\* the number of statements of a block
NumStatements(bb) == CASE bb = 0 -> 2 [] bb = 1 -> 0 [] bb = 2 -> 1

RECURSIVE SuccessorLists(_)
SuccessorLists(n) ==
    IF n = 0 THEN {<<>>}
    ELSE SuccessorLists(n - 1)
         \cup {Append(l, bb) : l \in {m \in SuccessorLists(n - 1) : Len(m) = n - 1},
                               bb \in SeqToSet(BasicBlocks)}

\* the graphs: the successors of the terminator of each block
Graphs == [SeqToSet(BasicBlocks) -> SuccessorLists(MaxSuccessors)]

\* BackwardMirInterpreter::apply_terminator: the state before the terminator
\* of the block, from the states at the heads of its successors
apply_terminator(bb, states) ==
    [bb |-> bb, stmts |-> <<>>, states |-> states]

\* BackwardMirInterpreter::apply_statement
apply_statement(bb, stmt_index, state) ==
    [state EXCEPT !.stmts = Append(@, stmt_index)]

\* the statements of the block applied from the last one
RECURSIVE apply_statements(_, _, _)
apply_statements(bb, stmt_index, state) ==
    IF stmt_index = 0 THEN state
    ELSE apply_statements(bb, stmt_index - 1,
                          apply_statement(bb, stmt_index - 1, state))

\* the predecessors of a block: a block is pushed once for each time its
\* terminator lists the successor
predecessors(mir, succ_bb) ==
    LET count(n) == Len(SelectSeq(mir[BasicBlocks[n]], LAMBDA s : s = succ_bb))
        entries(n) == [k \in 1..count(n) |-> BasicBlocks[n]]
        from[n \in 1..(Len(BasicBlocks) + 1)] ==
            IF n > Len(BasicBlocks) THEN <<>> ELSE entries(n) \o from[n + 1]
    IN  from[1]

\* the final basic blocks: the terminator has no successor
final_blocks(mir) == SelectSeq(BasicBlocks, LAMBDA bb : mir[bb] = <<>>)

\* the loop 'while !pending_blocks.is_empty()' that pops the last block
RECURSIVE interpret_pending(_, _, _)
interpret_pending(mir, pending_blocks, heads) ==
    IF pending_blocks = <<>> THEN heads
    ELSE LET curr_bb == pending_blocks[Len(pending_blocks)]
             rest == SubSeq(pending_blocks, 1, Len(pending_blocks) - 1)
             states == [bb \in SeqToSet(mir[curr_bb]) |-> heads[bb]]
             curr_state ==
                 apply_statements(curr_bb, NumStatements(curr_bb),
                                  apply_terminator(curr_bb, states))
             new_heads == MapPut(heads, curr_bb, curr_state)
             ready(pred_bb) ==
                 \A n \in 1..Len(mir[pred_bb]) :
                     mir[pred_bb][n] \in DOMAIN new_heads
             then(h) ==
                 interpret_pending(
                     mir, rest \o SelectSeq(predecessors(mir, curr_bb), ready), h)
         IN  then(new_heads)

\* a backward interpretation that returns the state of the first block
\* that has one
run_backward_interpretation_any(mir) ==
    LET then(heads) ==
            IF DOMAIN heads = {} THEN [some |-> FALSE]
            ELSE [some |-> TRUE,
                  state |-> heads[CHOOSE bb \in DOMAIN heads :
                                    \A o \in DOMAIN heads : bb <= o]]
    IN  then(interpret_pending(mir, final_blocks(mir), EmptyMap))

\* run_backward_interpretation: None, or the state at the head of the
\* first block
run_backward_interpretation(mir) ==
    LET then(heads) ==
            IF BasicBlocks[1] \in DOMAIN heads
            THEN [some |-> TRUE, state |-> heads[BasicBlocks[1]]]
            ELSE [some |-> FALSE]
    IN  then(interpret_pending(mir, final_blocks(mir), EmptyMap))

InitInterp ==
    /\ a = NewState
    /\ b = NewState
    /\ phase = "interp"
    /\ last = NoLast
    /\ steps = 0
    /\ debug_assertions \in BOOLEAN
    /\ \E mir \in Graphs :
          pf = [mir |-> mir, result |-> [some |-> FALSE], done |-> FALSE]

CallRunBackwardInterpretation ==
    /\ phase = "interp"
    /\ ~pf.done
    /\ \E r \in {run_backward_interpretation(pf.mir)} :
          pf' = [pf EXCEPT !.result = r, !.done = TRUE]
    /\ UNCHANGED <<a, b, phase, last, steps, debug_assertions>>

NextInterp == CallRunBackwardInterpretation

SpecInterp == InitInterp /\ [][NextInterp]_vars

\* the blocks reached from the blocks of a set in n steps or fewer
RECURSIVE ReachedFrom(_, _, _)
ReachedFrom(mir, from, n) ==
    IF n = 0 THEN from
    ELSE ReachedFrom(mir,
                     from \cup UNION {SeqToSet(mir[bb]) : bb \in from}, n - 1)

\* the blocks on a loop of the graph
OnLoop(mir) ==
    {bb \in SeqToSet(BasicBlocks) :
        bb \in ReachedFrom(mir, SeqToSet(mir[bb]), Len(BasicBlocks))}

\* the blocks that the entry block reaches
FromEntry(mir) == ReachedFrom(mir, {BasicBlocks[1]}, Len(BasicBlocks))

\* the state at the beginning of a block of a graph without loops
RECURSIVE HeadState(_, _)
HeadState(mir, bb) ==
    apply_statements(bb, NumStatements(bb),
                     apply_terminator(bb, [s \in SeqToSet(mir[bb]) |->
                                              HeadState(mir, s)]))

MaxIterations == 8

\* the state given for the final location
final_state == [bb |-> 90, stmts |-> <<>>, states |-> <<>>]

\* the state given for a successor without a state
empty_state == [bb |-> 91, stmts |-> <<>>, states |-> <<>>]

\* the statements of the block applied from the last one; the state after
\* the statement of the final location is the final state
RECURSIVE apply_statements_to_point(_, _, _, _, _)
apply_statements_to_point(bb, stmt_index, state, final_bbi, final_stmt_index) ==
    IF stmt_index = 0 THEN state
    ELSE apply_statements_to_point(
             bb, stmt_index - 1,
             IF bb = final_bbi /\ final_stmt_index = stmt_index - 1
             THEN final_state
             ELSE apply_statement(bb, stmt_index - 1, state),
             final_bbi, final_stmt_index)

\* the state at the head of the block from the heads of its successors: a
\* successor without a state takes the state of the first successor that
\* has one, or the empty state
point_to_point_head(mir, curr_bb, heads, final_bbi, final_stmt_index) ==
    LET with_state == SelectSeq(mir[curr_bb], LAMBDA bb : bb \in DOMAIN heads)
        default_state == IF with_state = <<>> THEN empty_state
                         ELSE heads[with_state[1]]
        states == [bb \in SeqToSet(mir[curr_bb]) |->
                     IF bb \in DOMAIN heads THEN heads[bb] ELSE default_state]
        terminator_index == NumStatements(curr_bb)
        curr_state ==
            IF curr_bb = final_bbi /\ final_stmt_index = terminator_index
            THEN final_state
            ELSE apply_terminator(curr_bb, states)
    IN  apply_statements_to_point(curr_bb, NumStatements(curr_bb), curr_state,
                                  final_bbi, final_stmt_index)

\* the blocks pushed after the block: its predecessors, unless it is the
\* initial block
point_to_point_pushes(mir, curr_bb, initial_bbi, heads) ==
    IF curr_bb = initial_bbi THEN <<>> ELSE predecessors(mir, curr_bb)

InitPointToPoint ==
    /\ a = NewState
    /\ b = NewState
    /\ phase = "point_to_point"
    /\ last = NoLast
    /\ steps = 0
    /\ debug_assertions \in BOOLEAN
    /\ \E mir \in Graphs, initial_bbi \in {0, 1}, final_bbi \in SeqToSet(BasicBlocks) :
        \E final_stmt_index \in {0, NumStatements(final_bbi)} :
          pf = [mir |-> mir, initial_bbi |-> initial_bbi, final_bbi |-> final_bbi,
                final_stmt_index |-> final_stmt_index,
                pending_blocks |-> <<final_bbi>>, heads |-> EmptyMap,
                iterations |-> 0, interpreted |-> <<>>,
                result |-> [some |-> FALSE], done |-> FALSE]

\* one iteration of 'while !pending_blocks.is_empty()'
InterpretPendingBlock ==
    /\ phase = "point_to_point"
    /\ ~pf.done
    /\ pf.pending_blocks # <<>>
    /\ pf.iterations < MaxIterations
    /\ LET curr_bb == pf.pending_blocks[Len(pf.pending_blocks)]
           rest == SubSeq(pf.pending_blocks, 1, Len(pf.pending_blocks) - 1)
       IN  \E heads \in {MapPut(pf.heads, curr_bb,
                                point_to_point_head(pf.mir, curr_bb, pf.heads,
                                                    pf.final_bbi,
                                                    pf.final_stmt_index))} :
             pf' = [pf EXCEPT
                      !.heads = heads,
                      !.pending_blocks =
                          rest \o point_to_point_pushes(pf.mir, curr_bb,
                                                        pf.initial_bbi, heads),
                      !.interpreted = Append(@, curr_bb),
                      !.iterations = @ + 1]
    /\ UNCHANGED <<a, b, phase, last, steps, debug_assertions>>

\* the end of the loop: heads.remove(&initial_bbi)
ReturnInitialState ==
    /\ phase = "point_to_point"
    /\ ~pf.done
    /\ pf.pending_blocks = <<>>
    /\ pf' = [pf EXCEPT
                !.done = TRUE,
                !.result = IF pf.initial_bbi \in DOMAIN pf.heads
                           THEN [some |-> TRUE, state |-> pf.heads[pf.initial_bbi]]
                           ELSE [some |-> FALSE]]
    /\ UNCHANGED <<a, b, phase, last, steps, debug_assertions>>

NextPointToPoint == InterpretPendingBlock \/ ReturnInitialState

SpecPointToPoint == InitPointToPoint /\ [][NextPointToPoint]_vars

\* the graph without the edges that leave the block
WithoutEdgesOf(mir, bb) == [mir EXCEPT ![bb] = <<>>]

\* the blocks on a loop that does not pass through the initial block: once
\* one of them is pending, its predecessor on the loop is pushed whenever
\* it is interpreted, and the pending blocks never run out
SpinningBlocks(mir, initial_bbi) ==
    OnLoop(WithoutEdgesOf(mir, initial_bbi)) \ {initial_bbi}

\* the state at the beginning of a block of a graph without loops, from
\* the successors that reach the final location
RECURSIVE PointHeadState(_, _, _, _)
PointHeadState(mir, bb, final_bbi, final_stmt_index) ==
    LET reaches(s) == final_bbi \in ReachedFrom(mir, {s}, Len(BasicBlocks))
        known == {s \in SeqToSet(mir[bb]) : reaches(s)}
    IN  point_to_point_head(
            mir, bb,
            [s \in known |-> PointHeadState(mir, s, final_bbi, final_stmt_index)],
            final_bbi, final_stmt_index)

\* C31: run_backward_interpretation_point_to_point terminates and returns
\* None if the graph contains a loop, and for a graph without loops in
\* which the final block is reachable from the initial block it returns
\* the state computed for the beginning of the initial block.
C31_Original ==
    phase = "point_to_point" =>
        IF OnLoop(pf.mir) # {}
        THEN /\ pf.done => ~pf.result.some
             /\ pf.iterations > 0 =>
                   ~\E n \in 1..Len(pf.pending_blocks) :
                       pf.pending_blocks[n] \in SpinningBlocks(pf.mir, pf.initial_bbi)
        ELSE /\ pf.iterations < MaxIterations
             /\ (pf.done /\ pf.final_bbi \in ReachedFrom(pf.mir, {pf.initial_bbi},
                                                        Len(BasicBlocks))) =>
                   /\ pf.result.some
                   /\ pf.result.state =
                         PointHeadState(pf.mir, pf.initial_bbi, pf.final_bbi,
                                        pf.final_stmt_index)

(***************************************************************************)
(* SpecFoldTarget: compute_fold_target on two sets of places               *)
(* (branch_ctxt.rs).                                                       *)
(***************************************************************************)
\* the places the left set is drawn from
FoldTargetLeft ==
    {<<"a">>, <<"b", "c">>, <<"d", "e", "f">>, <<"d", "g">>, <<"b", "c", "d">>,
     <<"e", "enum_A">>}

\* the places the right set is drawn from
FoldTargetRight ==
    {<<"a">>, <<"b", "c", "d">>, <<"b", "c", "e">>, <<"d", "e", "h">>,
     <<"d", "e">>, <<"h">>, <<"e", "enum_B">>}

InitFoldTarget ==
    /\ a = NewState
    /\ b = NewState
    /\ phase = "fold_target"
    /\ last = NoLast
    /\ steps = 0
    /\ debug_assertions \in BOOLEAN
    /\ \E left \in SUBSET FoldTargetLeft, right \in SUBSET FoldTargetRight :
          pf = [left |-> left, right |-> right,
                acc_places |-> {}, pred_places |-> {}, done |-> FALSE]

CallComputeFoldTarget ==
    /\ phase = "fold_target"
    /\ ~pf.done
    /\ \E r \in {compute_fold_target(pf.left, pf.right)} :
          pf' = [pf EXCEPT !.acc_places = r.acc_places,
                           !.pred_places = r.pred_places, !.done = TRUE]
    /\ UNCHANGED <<a, b, phase, last, steps, debug_assertions>>

NextFoldTarget == CallComputeFoldTarget

SpecFoldTarget == InitFoldTarget /\ [][NextFoldTarget]_vars

\* the elements of a set that have a prefix in the other set
WithPrefixIn(item_set, other_set) ==
    {item \in item_set : \E p \in other_set : has_prefix(item, p)}

\* C32: the places compute_fold_target returns to be obtained by unfolding
\* are the elements that have a prefix in the other input set: for the
\* inputs {a, b.c, d.e.f, d.g} and {a, b.c.d, b.c.e, d.e.h} they are
\* {a, b.c.d, b.c.e, d.e.f}.
C32_Original ==
    (phase = "fold_target" /\ pf.done) =>
        /\ pf.acc_places = WithPrefixIn(pf.left, pf.right)
                           \cup WithPrefixIn(pf.right, pf.left)
        /\ (/\ pf.left = {<<"a">>, <<"b", "c">>, <<"d", "e", "f">>, <<"d", "g">>}
            /\ pf.right = {<<"a">>, <<"b", "c", "d">>, <<"b", "c", "e">>,
                           <<"d", "e", "h">>}) =>
              pf.acc_places = {<<"a">>, <<"b", "c", "d">>, <<"b", "c", "e">>,
                               <<"d", "e", "f">>}

(***************************************************************************)
(* The build mode of the consistency checks.                               *)
(***************************************************************************)
\* C33: the consistency checks of check_consistency are performed in debug
\* builds, where a violated invariant aborts the run, and are skipped in
\* release builds: after an obtain that leaves an inconsistent state, the
\* run has panicked if debug_assertions is on and goes on if it is off.
C33_Original ==
    (last.op = "obtain" /\ last.ok /\ Ok(last.post) /\ ~Consistent(last.post)) =>
        IF debug_assertions THEN ~Ok(a) ELSE Ok(a)


(***************************************************************************)
(* C34: when obtain returns Failure, the state is the one before the call: *)
(* the failed attempt has unfolded or folded nothing and has inserted or   *)
(* removed no permission.                                                  *)
(***************************************************************************)
C34_Original ==
    (last.op = "obtain" /\ ~last.ok /\ Ok(last.post)) => last.post = last.pre

(***************************************************************************)
(* C35: every end_frame that matches an earlier begin_frame completes      *)
(* without panicking and makes all framed permissions held again, whatever *)
(* was inserted or removed while the frame was open.                       *)
(***************************************************************************)
C35_Original ==
    (last.op = "end_frame" /\ Ok(last.pre)) =>
        /\ Ok(a)
        /\ \A perm \in TopFrame :
              /\ is_acc(perm) => contains_acc(a, perm.place)
              /\ is_pred(perm) => contains_pred(a, perm.place)

(***************************************************************************)
(* C36: join is symmetric: a.join(b) and b.join(a) leave the branches in   *)
(* the same final states, and the two returned action lists are the same   *)
(* with their roles swapped.                                               *)
(***************************************************************************)
\* b.join(a), taken on the two contexts the last join started from, ends
\* with the states and the action lists of the last join, roles swapped
JoinSwapped(ord) ==
    LET then(j) == /\ j.l = b /\ j.r = a
                   /\ j.la = last.ractions /\ j.ra = last.actions
    IN  then(join(last.preb, last.pre, debug_assertions, ord))

C36_Original == JoinReturned => \E ord \in HashOrders : JoinSwapped(ord)

(***************************************************************************)
(* SpecQuantSet: insert_quant and remove_quant called on one state.        *)
(***************************************************************************)
\* State::remove_quant; find takes the first similar entry in the
\* iteration order of the hash set
remove_quant(s, quant, ord) ==
    LET similar == {c \in s.quant : c.kind = quant.kind /\ c.place = quant.place}
        curr_quant_entry == PermsToSeq(similar, ord)[1]
        new_perm_amount == AmountSub(curr_quant_entry.amount, quant.amount)
    IN  IF ~Ok(s) THEN s
        ELSE IF similar = {}
        THEN Panic(s, "remove_quant: not in state, so it can not be removed")
        ELSE IF ~AmountLt(quant.amount, curr_quant_entry.amount)
        THEN [s EXCEPT !.quant = @ \ {curr_quant_entry}]
        ELSE IF new_perm_amount = Invalid
        THEN Panic(s, "PermAmount: invalid subtraction")
        ELSE [s EXCEPT !.quant = (@ \ {curr_quant_entry})
                          \cup {[curr_quant_entry EXCEPT
                                    !.amount = new_perm_amount]}]

\* the quantified resources that are inserted and removed
QuantSetPerms ==
    { [kind |-> kind, place |-> p, amount |-> amount] :
        kind \in {"acc", "pred"}, p \in {<<"z">>, <<"x", "f">>},
        amount \in {"Read", "Write"} }

InsertQuant(quant) ==
    /\ CanStep("a")
    /\ Step("a", insert_quant(a, quant),
            [NoLast EXCEPT !.op = "insert_quant", !.req = quant, !.pre = a])

RemoveQuant(quant, ord) ==
    /\ CanStep("a")
    /\ Step("a", remove_quant(a, quant, ord),
            [NoLast EXCEPT !.op = "remove_quant", !.req = quant, !.pre = a])

NextQuantSet ==
    \/ \E quant \in QuantSetPerms : InsertQuant(quant)
    \/ \E quant \in QuantSetPerms, ord \in HashOrders : RemoveQuant(quant, ord)

SpecQuantSet == InitFold /\ [][NextQuantSet]_vars

\* two entries that are similar when the amount is ignored
SimilarEntries(s) ==
    { pair \in s.quant \X s.quant :
        /\ pair[1] # pair[2]
        /\ pair[1].kind = pair[2].kind /\ pair[1].place = pair[2].place }

\* C37: after any sequence of insert_quant and remove_quant calls the
\* quantified set never holds two entries that are similar to each other
\* when the amount is ignored: inserting an entry similar to a held one
\* leaves a single entry carrying the summed amount.
C37_Original ==
    Ok(a) =>
        /\ SimilarEntries(a) = {}
        /\ (last.op = "insert_quant"
              /\ \E c \in last.pre.quant :
                    c.kind = last.req.kind /\ c.place = last.req.place) =>
                 \E c \in a.quant :
                    /\ c.kind = last.req.kind /\ c.place = last.req.place
                    /\ \E held \in last.pre.quant :
                          /\ held.kind = c.kind /\ held.place = c.place
                          /\ c.amount = AmountAdd(held.amount, last.req.amount)

(***************************************************************************)
(* SpecBackward: run_backward_interpretation, one iteration of its loop    *)
(* 'while !pending_blocks.is_empty()' at a time, with the list of the      *)
(* blocks interpreted so far.                                              *)
(***************************************************************************)
\* one iteration: the block popped, the pending blocks and the heads after
interpret_block(mir, pending_blocks, heads) ==
    LET curr_bb == pending_blocks[Len(pending_blocks)]
        rest == SubSeq(pending_blocks, 1, Len(pending_blocks) - 1)
        states == [bb \in SeqToSet(mir[curr_bb]) |-> heads[bb]]
        curr_state ==
            apply_statements(curr_bb, NumStatements(curr_bb),
                             apply_terminator(curr_bb, states))
        new_heads == MapPut(heads, curr_bb, curr_state)
        ready(pred_bb) ==
            \A n \in 1..Len(mir[pred_bb]) : mir[pred_bb][n] \in DOMAIN new_heads
    IN  [curr_bb |-> curr_bb,
         pending_blocks |-> rest \o SelectSeq(predecessors(mir, curr_bb), ready),
         heads |-> new_heads]

InitBackward ==
    /\ a = NewState
    /\ b = NewState
    /\ phase = "backward"
    /\ last = NoLast
    /\ steps = 0
    /\ debug_assertions \in BOOLEAN
    /\ \E mir \in Graphs :
          pf = [mir |-> mir, pending_blocks |-> final_blocks(mir),
                heads |-> EmptyMap, interpreted |-> <<>>,
                result |-> [some |-> FALSE], done |-> FALSE]

\* an iteration of the loop; the entry of the list tells whether the heads
\* held every successor of the block when it was popped
InterpretBlock ==
    /\ phase = "backward"
    /\ ~pf.done
    /\ pf.pending_blocks # <<>>
    /\ \E r \in {interpret_block(pf.mir, pf.pending_blocks, pf.heads)} :
          pf' = [pf EXCEPT
                    !.pending_blocks = r.pending_blocks,
                    !.heads = r.heads,
                    !.interpreted =
                        Append(@, [bb |-> r.curr_bb,
                                   after_successors |->
                                       SeqToSet(pf.mir[r.curr_bb])
                                           \subseteq DOMAIN pf.heads])]
    /\ UNCHANGED <<a, b, phase, last, steps, debug_assertions>>

\* the result once no block is pending
ReturnHeadOfFirstBlock ==
    /\ phase = "backward"
    /\ ~pf.done
    /\ pf.pending_blocks = <<>>
    /\ pf' = [pf EXCEPT
                 !.result = IF BasicBlocks[1] \in DOMAIN pf.heads
                            THEN [some |-> TRUE, state |-> pf.heads[BasicBlocks[1]]]
                            ELSE [some |-> FALSE],
                 !.done = TRUE]
    /\ UNCHANGED <<a, b, phase, last, steps, debug_assertions>>

NextBackward == InterpretBlock \/ ReturnHeadOfFirstBlock

SpecBackward == InitBackward /\ [][NextBackward]_vars

\* C38: run_backward_interpretation interprets a block only after the head
\* states of all its successors have been computed, and it interprets each
\* block at most once.
C38_Original ==
    phase = "backward" =>
        /\ \A n \in 1..Len(pf.interpreted) : pf.interpreted[n].after_successors
        /\ \A n, m \in 1..Len(pf.interpreted) :
              pf.interpreted[n].bb = pf.interpreted[m].bb => n = m

(***************************************************************************)
(* SpecLog: the event log (log.rs).  Actions are logged for the blocks of  *)
(* the CFG, then the dropped permissions of a path are collected.          *)
(***************************************************************************)
MaxLogged == 2

MaxPathLen == 3

CfgBlocks == {0, 1, 2}

\* the actions that are logged: two drops and an unfold
LogActions ==
    { ActDrop(Acc(<<"x", "f">>, "Write"), Pred(<<"x">>, "Write")),
      ActDrop(Pred(<<"x", "g">>, "Read"), Acc(<<"z">>, "Read")),
      ActUnfold(<<"x">>, "Write", None) }

\* the borrowed places of the DAGs
BorrowedPlaces == {<<"x">>, <<"z">>}

\* DAG::in_borrowed_places; a DAG is the set of its borrowed places
in_borrowed_places(dag, place) == place \in dag

\* EventLog::log_prejoin_action: the map prejoin_actions afterwards
log_prejoin_action(prejoin_actions, block_index, action) ==
    LET entry == IF block_index \in DOMAIN prejoin_actions
                 THEN prejoin_actions[block_index] ELSE <<>>
    IN  MapPut(prejoin_actions, block_index, Append(entry, action))

\* the loop 'for curr_block_index in relevant_path'
RECURSIVE collect_dropped_from(_, _, _)
collect_dropped_from(prejoin_actions, relevant_path, dag) ==
    IF relevant_path = <<>> THEN <<>>
    ELSE LET curr_block_index == Head(relevant_path)
             actions == IF curr_block_index \in DOMAIN prejoin_actions
                        THEN prejoin_actions[curr_block_index] ELSE <<>>
             IsBorrowedDrop(action) ==
                 /\ action.kind = "Drop"
                 /\ in_borrowed_places(dag, action.missing.place)
             kept == SelectSeq(actions, IsBorrowedDrop)
         IN  [n \in 1..Len(kept) |-> kept[n].perm]
             \o collect_dropped_from(prejoin_actions, Tail(relevant_path), dag)

\* a collection that goes over the whole path, its last block included
collect_dropped_permissions_whole_path(prejoin_actions, path, dag) ==
    IF Len(path) = 0 THEN [panic |-> TRUE, perms |-> <<>>]
    ELSE [panic |-> FALSE,
          perms |-> collect_dropped_from(prejoin_actions, path, dag)]

\* EventLog::collect_dropped_permissions
collect_dropped_permissions(prejoin_actions, path, dag) ==
    IF Len(path) = 0 THEN [panic |-> TRUE, perms |-> <<>>]
    ELSE [panic |-> FALSE,
          perms |-> collect_dropped_from(
                        prejoin_actions, SubSeq(path, 1, Len(path) - 1), dag)]

\* the paths: the sequences of at most n blocks
RECURSIVE Paths(_)
Paths(n) ==
    IF n = 0 THEN {<<>>}
    ELSE Paths(n - 1)
         \cup {Append(p, bb) : p \in {q \in Paths(n - 1) : Len(q) = n - 1},
                               bb \in CfgBlocks}

\* logged is the list of the calls of log_prejoin_action, in their order
InitLog ==
    /\ a = NewState
    /\ b = NewState
    /\ phase = "log"
    /\ last = NoLast
    /\ steps = 0
    /\ debug_assertions = FALSE
    /\ \E dag \in SUBSET BorrowedPlaces :
          pf = [prejoin_actions |-> EmptyMap, logged |-> <<>>, dag |-> dag,
                path |-> <<>>, result |-> <<>>, panic |-> FALSE,
                done |-> FALSE]

LogPrejoinAction(block_index, action) ==
    /\ phase = "log"
    /\ ~pf.done
    /\ Len(pf.logged) < MaxLogged
    /\ pf' = [pf EXCEPT
                 !.prejoin_actions =
                     log_prejoin_action(@, block_index, action),
                 !.logged = Append(@, [block |-> block_index,
                                       action |-> action])]
    /\ UNCHANGED <<a, b, phase, last, steps, debug_assertions>>

CollectDroppedPermissions(path) ==
    /\ phase = "log"
    /\ ~pf.done
    /\ \E r \in {collect_dropped_permissions(pf.prejoin_actions, path, pf.dag)} :
          pf' = [pf EXCEPT !.path = path, !.result = r.perms,
                           !.panic = r.panic, !.done = TRUE]
    /\ UNCHANGED <<a, b, phase, last, steps, debug_assertions>>

NextLog ==
    \/ \E block_index \in CfgBlocks, action \in LogActions :
          LogPrejoinAction(block_index, action)
    \/ \E path \in Paths(MaxPathLen) : CollectDroppedPermissions(path)

SpecLog == InitLog /\ [][NextLog]_vars

\* the pairs (position of the path, call of log_prejoin_action) of the
\* drops logged for the block at that position whose missing permission is
\* on a borrowed place of the DAG
QualifyingDrops(positions) ==
    { pos \in positions \X (1..Len(pf.logged)) :
        /\ pf.logged[pos[2]].block = pf.path[pos[1]]
        /\ pf.logged[pos[2]].action.kind = "Drop"
        /\ pf.logged[pos[2]].action.missing.place \in pf.dag }

\* path order, and logging order at one position of the path
DropBefore(p, q) == p[1] < q[1] \/ (p[1] = q[1] /\ p[2] < q[2])

\* the result is the list of the dropped permissions of the qualifying
\* drops of the positions, in that order
ReturnsExactly(positions) ==
    LET then(qual) ==
            /\ Len(pf.result) = Cardinality(qual)
            /\ \A q \in qual :
                  pf.result[Cardinality({p \in qual : DropBefore(p, q)}) + 1]
                      = pf.logged[q[2]].action.perm
    IN  then(QualifyingDrops(positions))

\* C39 as stated: collect_dropped_permissions(path, dag) returns, in path
\* order and within a block in logging order, exactly the dropped
\* permission of every Drop logged for a block of the path other than its
\* last block whose missing permission's place is a borrowed place of the
\* DAG; actions logged for the last block of the path are never returned.
C39_Original ==
    (phase = "log" /\ pf.done /\ ~pf.panic) =>
        ReturnsExactly({i \in 1..Len(pf.path) :
                           pf.path[i] # pf.path[Len(pf.path)]})

\* C39, by positions: for a path that is not empty the call returns, in
\* path order and at one position in logging order, exactly the dropped
\* permission of every Drop logged for the block at a position of the path
\* other than the last position whose missing permission's place is a
\* borrowed place of the DAG; the last position, the blocks outside the
\* path and the actions that are not drops contribute nothing; on an empty
\* path the call panics.
C39_ByPosition ==
    (phase = "log" /\ pf.done) =>
        IF pf.path = <<>> THEN pf.panic
        ELSE ~pf.panic /\ ReturnsExactly(1..(Len(pf.path) - 1))

\* the last block of the path also occurs earlier in it and a drop logged
\* for it was returned, while an action that is not a drop, or a drop whose
\* missing place is not borrowed, was logged for a block before the last
\* position
C39_Witness ==
    /\ phase = "log" /\ pf.done /\ ~pf.panic
    /\ \E i \in 1..(Len(pf.path) - 1) :
          /\ pf.path[i] = pf.path[Len(pf.path)]
          /\ \E k \in 1..Len(pf.logged) :
                /\ pf.logged[k].block = pf.path[i]
                /\ pf.logged[k].action.kind = "Drop"
                /\ pf.logged[k].action.missing.place \in pf.dag
    /\ pf.result # <<>>
    /\ \E i \in 1..(Len(pf.path) - 1), k \in 1..Len(pf.logged) :
          /\ pf.logged[k].block = pf.path[i]
          /\ \/ pf.logged[k].action.kind # "Drop"
             \/ pf.logged[k].action.missing.place \notin pf.dag
====
